---- MODULE Spec2Model ----
(***************************************************************************)
(* A model of term-mate (`mate`), src/src/main.rs: the intent resolution   *)
(* pipeline (argument parsing, router, context collectors, streaming       *)
(* generation, command sanitizer, safety filter, print / execute).         *)
(*                                                                         *)
(* Text is a sequence of Unicode code points (Rust `char`s as u32), so     *)
(* that lower-casing, substring search, trimming and line splitting are    *)
(* computed, not assumed.                                                  *)
(***************************************************************************)
EXTENDS Integers, Sequences, FiniteSets, TLC

VARIABLES
    unit,                \* harness of the pure functions: [fn, arg, ret, done]
    pc,                  \* position of the coordinating flow (main)
    stdin,               \* standard input: [tty, data, reads]
    args,                \* env::args() after the program name, until the intent is built
    quick_mode,          \* main: -q / --quick seen
    auto_confirm,        \* main: -y / --yes seen
    is_tty,              \* atty::is(Stream::Stdout)
    router_enabled,      \* config.router_enabled
    intent,              \* main's intent, then run_interactive's full_intent
    needs,               \* the ContextNeeds of the routing phase
    router,              \* the router call: [state, response, result]
    is_git_repo,         \* gather_context: what is_git_repo() answered
    tasks,               \* gather_context: the spawned collector tasks
    hung,                \* gather_context: the tasks whose process never exits
    extra_context,       \* the sections gather_context returned
    prompt,              \* the final prompt: [template, context]
    requests,            \* the requests sent to the backend, in order
    wire,                \* what the generation backend will still send
    chunk,               \* the lines of the current network chunk not yet read
    full_response,       \* generate_ollama_streaming: full_response
    result,              \* on_token closure: result
    in_think_block,      \* on_token closure
    first_visible_token, \* on_token closure
    got_first_token,     \* the flag shared with the spinner task
    spinner,             \* the spinner task: "idle" (not spawned), "running", "drawing", "stopped"
    generation_result,   \* "pending", "ok" or "err"
    stdout,              \* what was written to standard output, in order
    stderr,              \* what was written to standard error, in order
    raw,                 \* main: raw, the generation result
    sanitized,           \* main has computed command (line 1273)
    command,             \* main: command
    input,               \* main: the line read at the run prompt
    clipboard,           \* what copy_to_clipboard was given
    shell,               \* the strings passed to `sh -c`, in order
    exit_code            \* the exit status of the process, -1 while it runs

cliVars == <<args, quick_mode, auto_confirm, is_tty, router_enabled>>
routeVars == <<intent, needs, router>>
gatherVars == <<is_git_repo, tasks, hung, extra_context>>
genVars == <<prompt, requests, wire, chunk, full_response, result, in_think_block,
             first_visible_token, got_first_token, spinner, generation_result>>
outVars == <<stdout, stderr, raw, sanitized, command, input, clipboard, shell, exit_code>>

\* the variables of the pipeline (everything but the harness)
pipeVars == <<pc, stdin, cliVars, routeVars, gatherVars, genVars, outVars>>

vars == <<unit, pipeVars>>

----------------------------------------------------------------------------
(* Text helpers (Rust str methods) *)

\* s[i..] starts with p (1-based i)
StartsWithAt(s, p, i) ==
    /\ i + Len(p) - 1 <= Len(s)
    /\ \A k \in 1..Len(p) : s[i + k - 1] = p[k]

\* str::contains(pattern)
Contains(s, p) == \E i \in 1..(Len(s) + 1) : StartsWithAt(s, p, i)

\* char::to_lowercase on the letters the model uses: A-Z, and U+212A KELVIN
\* SIGN, whose lower case is 'k'
LowerChar(c) ==
    IF c >= 65 /\ c <= 90 THEN c + 32
    ELSE IF c = 8490 THEN 107
    ELSE c

\* str::to_lowercase
ToLowercase(s) == [i \in 1..Len(s) |-> LowerChar(s[i])]

\* char::is_whitespace (Unicode White_Space)
IsWhitespace(c) ==
    \/ (c >= 9 /\ c <= 13) \/ c = 32 \/ c = 133 \/ c = 160 \/ c = 5760
    \/ (c >= 8192 /\ c <= 8202) \/ c = 8232 \/ c = 8233 \/ c = 8239
    \/ c = 8287 \/ c = 12288

RECURSIVE TrimStart(_)
TrimStart(s) == IF s # << >> /\ IsWhitespace(Head(s)) THEN TrimStart(Tail(s)) ELSE s

RECURSIVE TrimEnd(_)
TrimEnd(s) ==
    IF s # << >> /\ IsWhitespace(s[Len(s)]) THEN TrimEnd(SubSeq(s, 1, Len(s) - 1)) ELSE s

\* str::trim
Trim(s) == TrimEnd(TrimStart(s))

\* str::find(pattern): the 1-based index of the first match, 0 for None
Find(s, p) ==
    IF Contains(s, p)
    THEN CHOOSE i \in 1..(Len(s) + 1) :
            StartsWithAt(s, p, i) /\ \A j \in 1..(i - 1) : ~StartsWithAt(s, p, j)
    ELSE 0

\* str::replace(c, ""): every occurrence of the char c removed
RemoveChar(s, c) == SelectSeq(s, LAMBDA x : x # c)

\* s[i..] (1-based i)
From(s, i) == SubSeq(s, i, Len(s))

\* chars().take(n).collect()
Take(s, n) == IF Len(s) <= n THEN s ELSE SubSeq(s, 1, n)

\* str::lines: split at '\n', the final line needs no terminator, and a
\* line's trailing '\r' (of "\r\n") is not part of it
StripCr(l) == IF l # << >> /\ l[Len(l)] = 13 THEN SubSeq(l, 1, Len(l) - 1) ELSE l

RECURSIVE Lines(_)
Lines(s) ==
    IF s = << >> THEN << >>
    ELSE LET nl == Find(s, <<10>>) IN
         IF nl = 0 THEN <<s>>
         ELSE <<StripCr(SubSeq(s, 1, nl - 1))>> \o Lines(From(s, nl + 1))

\* [String]::join(sep)
RECURSIVE Join(_, _)
Join(parts, sep) ==
    IF parts = << >> THEN << >>
    ELSE IF Len(parts) = 1 THEN parts[1]
    ELSE parts[1] \o sep \o Join(Tail(parts), sep)

----------------------------------------------------------------------------
(* Safety Filter *)

\* the deny-list literals of is_safe
RmRfRoot == <<114, 109, 32, 45, 114, 102, 32, 47>>                  \* "rm -rf /"
RmRfStar == <<114, 109, 32, 45, 114, 102, 32, 42>>                  \* "rm -rf *"
Mkfs     == <<109, 107, 102, 115>>                                  \* "mkfs"
DdIf     == <<100, 100, 32, 105, 102, 61>>                          \* "dd if="
ForkBomb == <<58, 40, 41, 123, 32, 58, 124, 58, 38, 32, 125, 59, 58>> \* ":(){ :|:& };:"

\* the closure of line 32: (c as u32) < 0x20 && c != '\t' && c != '\n'
BlockedChar(c) == c < 32 /\ c # 9 /\ c # 10

\* mutant: the cmd is searched as written, not lower-cased
is_safe_case_sensitive(cmd) ==
    /\ ~(Contains(cmd, RmRfRoot) \/ Contains(cmd, RmRfStar))
    /\ ~(Contains(cmd, Mkfs) \/ Contains(cmd, DdIf))
    /\ ~Contains(cmd, ForkBomb)
    /\ ~(\E i \in 1..Len(cmd) : BlockedChar(cmd[i]))

is_safe(cmd) ==
    LET lowered == ToLowercase(cmd) IN
    IF Contains(lowered, RmRfRoot) \/ Contains(lowered, RmRfStar) THEN FALSE
    ELSE IF Contains(lowered, Mkfs) \/ Contains(lowered, DdIf) THEN FALSE
    ELSE IF Contains(lowered, ForkBomb) THEN FALSE
    ELSE IF \E i \in 1..Len(cmd) : BlockedChar(cmd[i]) THEN FALSE
    ELSE TRUE

----------------------------------------------------------------------------
(* Inputs of the safety filter: affix ++ core ++ affix *)

MaxAffix == 1

\* ' ', 'a', TAB, LF, ESC, DEL, U+009B (CSI)
AffixChars == {32, 97, 9, 10, 27, 127, 155}

RECURSIVE SeqsUpTo(_, _)
SeqsUpTo(S, n) ==
    IF n = 0 THEN {<< >>}
    ELSE LET shorter == SeqsUpTo(S, n - 1) IN
         shorter \cup {Append(s, c) : s \in shorter, c \in S}

Affixes == SeqsUpTo(AffixChars, MaxAffix)

SafeCores == {
    << >>,
    RmRfRoot, RmRfStar, Mkfs, DdIf, ForkBomb,
    <<82, 77, 32, 45, 82, 70, 32, 47>>,             \* "RM -RF /"
    <<82, 109, 32, 45, 114, 70, 32, 42>>,           \* "Rm -rF *"
    <<77, 8490, 70, 83>>,                           \* "M\u{212A}FS"
    <<109, 107, 102, 115, 46, 101, 120, 116, 52, 32, 47, 100, 101, 118, 47, 115, 100, 97>>, \* "mkfs.ext4 /dev/sda"
    <<68, 68, 32, 73, 70, 61>>,                     \* "DD IF="
    <<100, 100, 32, 105, 102, 61, 47, 100, 101, 118, 47, 122, 101, 114, 111, 32, 111, 102, 61, 47, 100, 101, 118, 47, 115, 100, 97>>, \* "dd if=/dev/zero of=/dev/sda"
    <<114, 109, 32, 45, 114, 102>>,                 \* "rm -rf"
    <<114, 109, 32, 45, 114, 32, 47>>,              \* "rm -r /"
    <<109, 107, 102>>,                              \* "mkf"
    <<100, 100, 32, 105, 102>>,                     \* "dd if"
    <<103, 105, 116, 32, 115, 116, 97, 116, 117, 115>>, \* "git status"
    <<108, 115, 32, 45, 108, 97>>,                  \* "ls -la"
    <<101, 99, 104, 111, 32, 39, 104, 101, 108, 108, 111, 39>> \* "echo 'hello'"
}

SafeInputs == {pre \o core \o post : pre \in Affixes, core \in SafeCores, post \in Affixes}

----------------------------------------------------------------------------
(* Router: ContextNeeds and parse_router_response *)

\* the paths a router response may name
FileA == <<97>>     \* "a"
FileB == <<98>>     \* "b"

Needs(diff, staged, status, log, branch, tree, files) ==
    [git_diff |-> diff, git_diff_staged |-> staged, git_status |-> status,
     git_log |-> log, git_branch |-> branch, file_tree |-> tree,
     read_files |-> files]

\* impl Default for ContextNeeds
DefaultNeeds == Needs(FALSE, FALSE, FALSE, FALSE, FALSE, FALSE, << >>)

(* A router response is a sequence of lexical pieces, each at least one byte
   long: "lb" is '{', "rb" is '}', "ws" is white space, "txt" is prose without
   braces, "members" is a well-formed member list of a ContextNeeds object
   (v is the value serde builds from it, absent fields defaulted), "bad" is a
   member list serde rejects (a flag with a string value). *)
Tok(t) == [t |-> t, v |-> DefaultNeeds]
Members(n) == [t |-> "members", v |-> n]

\* str::trim on a response: leading and trailing white space removed
RECURSIVE TrimStartToks(_)
TrimStartToks(r) ==
    IF r # << >> /\ Head(r).t = "ws" THEN TrimStartToks(Tail(r)) ELSE r

RECURSIVE TrimEndToks(_)
TrimEndToks(r) ==
    IF r # << >> /\ r[Len(r)].t = "ws" THEN TrimEndToks(SubSeq(r, 1, Len(r) - 1)) ELSE r

TrimToks(r) == TrimEndToks(TrimStartToks(r))

\* the pieces of r that are not white space
NonWs(r) == SelectSeq(r, LAMBDA k : k.t # "ws")

\* serde_json::from_str::<ContextNeeds>: one object, white space allowed
\* anywhere between its pieces, nothing else before or after it
FromStr(r) ==
    LET k == NonWs(r) IN
    IF k = <<Tok("lb"), Tok("rb")>> THEN [ok |-> TRUE, needs |-> DefaultNeeds]
    ELSE IF Len(k) = 3 /\ k[1].t = "lb" /\ k[2].t = "members" /\ k[3].t = "rb"
         THEN [ok |-> TRUE, needs |-> k[2].v]
    ELSE [ok |-> FALSE, needs |-> DefaultNeeds]

\* str::find('{') / str::rfind('}'): the first / last index, 0 for None
FindTok(r, t) ==
    IF \E i \in 1..Len(r) : r[i].t = t
    THEN CHOOSE i \in 1..Len(r) : r[i].t = t /\ \A j \in 1..(i - 1) : r[j].t # t
    ELSE 0

RFindTok(r, t) ==
    IF \E i \in 1..Len(r) : r[i].t = t
    THEN CHOOSE i \in 1..Len(r) : r[i].t = t /\ \A j \in (i + 1)..Len(r) : r[j].t # t
    ELSE 0

Returned(n) == [panic |-> FALSE, needs |-> n]
Panicked == [panic |-> TRUE, needs |-> DefaultNeeds]

\* &cleaned[start..=end] panics when start > end + 1 (the range start..end+1
\* is then decreasing); start = end + 1 is the empty slice
parse_router_response(response) ==
    IF FromStr(response).ok THEN Returned(FromStr(response).needs)
    ELSE
        LET cleaned == TrimToks(response)
            start == FindTok(cleaned, "lb")
            end == RFindTok(cleaned, "rb")
        IN  IF start = 0 \/ end = 0 THEN Returned(DefaultNeeds)
            ELSE IF start > end + 1 THEN Panicked
            ELSE LET json_str == SubSeq(cleaned, start, end) IN
                 IF FromStr(json_str).ok THEN Returned(FromStr(json_str).needs)
                 ELSE Returned(DefaultNeeds)

(* Inputs of parse_router_response: every sequence of at most MaxResp pieces *)
MaxResp == 4

NeedsDiff == Needs(TRUE, FALSE, FALSE, FALSE, FALSE, FALSE, << >>)
NeedsFile == Needs(FALSE, FALSE, FALSE, FALSE, FALSE, FALSE, <<FileA>>)

RouterToks ==
    {Tok("lb"), Tok("rb"), Tok("ws"), Tok("txt"), Tok("bad"),
     Members(NeedsDiff), Members(NeedsFile)}

RouterInputs == SeqsUpTo(RouterToks, MaxResp)

----------------------------------------------------------------------------
(* Command Sanitizer *)

Fence == <<96, 96, 96>>     \* "```"

\* the fenced block of clean_command: the text after the first fence's line,
\* up to the next fence; the text itself when that fence is missing
FencedContent(cmd) ==
    LET start == Find(cmd, Fence)
        after_start == From(cmd, start + 3)
        nl == Find(after_start, <<10>>)
        content == IF nl = 0 THEN after_start ELSE From(after_start, nl + 1)
        end == Find(content, Fence)
    IN  IF end = 0 THEN cmd ELSE SubSeq(content, 1, end - 1)

\* mutant: a carriage return inside the chosen line is kept
clean_command_keeps_cr(text) ==
    LET fenced == IF Contains(text, Fence) THEN FencedContent(text) ELSE text
        cmd == RemoveChar(fenced, 96)
        nonblank == SelectSeq(Lines(cmd), LAMBDA l : Trim(l) # << >>)
    IN  IF nonblank # << >> THEN Trim(nonblank[1])
        ELSE Trim(cmd)

\* mutant: the backticks are taken out of the chosen line after it was
\* trimmed, not out of the whole text before
clean_command_strips_late(text) ==
    LET cmd == IF Contains(text, Fence) THEN FencedContent(text) ELSE text
        nonblank == SelectSeq(Lines(cmd), LAMBDA l : Trim(l) # << >>)
    IN  IF nonblank # << >> THEN RemoveChar(RemoveChar(Trim(nonblank[1]), 96), 13)
        ELSE Trim(cmd)

\* lines 919-950
clean_command(text) ==
    LET fenced == IF Contains(text, Fence) THEN FencedContent(text) ELSE text
        cmd == RemoveChar(fenced, 96)
        nonblank == SelectSeq(Lines(cmd), LAMBDA l : Trim(l) # << >>)
    IN  IF nonblank # << >> THEN RemoveChar(Trim(nonblank[1]), 13)
        ELSE Trim(cmd)

----------------------------------------------------------------------------
(* Context collectors and gather_context *)

TreeBudget == 4000      \* chars of the file tree
DiffBudget == 6000      \* chars of each diff
FileBudget == 16000     \* chars of each file

\* what an external command or a file read did: it failed, or gave `out`
Failed == [ok |-> FALSE, out |-> << >>]
Gave(text) == [ok |-> TRUE, out |-> text]

None == [some |-> FALSE, sec |-> [kind |-> "none", path |-> << >>, content |-> << >>]]
Some(kind, path, content) ==
    [some |-> TRUE, sec |-> [kind |-> kind, path |-> path, content |-> content]]

\* run_command: None unless the process ran, exited with success, wrote
\* UTF-8, and its trimmed output is not empty (<< >> stands for None: the
\* output of a Some is never empty)
run_command(o) ==
    IF ~o.ok THEN << >>
    ELSE Trim(o.out)

\* the section a command collector returns; the status, log and branch
\* collectors do not truncate
CommandSection(kind, o) ==
    LET out == run_command(o) IN
    IF out = << >> THEN None
    ELSE IF kind = "diff" \/ kind = "staged" THEN Some(kind, << >>, Take(out, DiffBudget))
    ELSE Some(kind, << >>, out)

\* the file tree task: `tree`, or else `find`
TreeSection(o_tree, o_find) ==
    LET tree == IF run_command(o_tree) # << >> THEN run_command(o_tree)
                ELSE run_command(o_find)
    IN  IF tree = << >> THEN None ELSE Some("tree", << >>, Take(tree, TreeBudget))

\* mutant: the whole file is kept
read_file_head_whole(path, o) ==
    IF o.ok THEN Some("file", path, o.out) ELSE None

read_file_head(path, o) ==
    IF o.ok THEN Some("file", path, Take(o.out, FileBudget)) ELSE None

\* the label line each collector puts before its content
Label(kind, path) ==
    IF kind = "tree" THEN <<61, 61, 61, 32, 70, 105, 108, 101, 32, 84, 114, 101, 101, 32, 61, 61, 61>>
    ELSE IF kind = "status"
        THEN <<61, 61, 61, 32, 71, 105, 116, 32, 83, 116, 97, 116, 117, 115, 32, 61, 61, 61>>
    ELSE IF kind = "diff"
        THEN <<61, 61, 61, 32, 71, 105, 116, 32, 68, 105, 102, 102, 32, 40, 117, 110, 115,
               116, 97, 103, 101, 100, 41, 32, 61, 61, 61>>
    ELSE IF kind = "staged"
        THEN <<61, 61, 61, 32, 71, 105, 116, 32, 68, 105, 102, 102, 32, 40, 115, 116, 97,
               103, 101, 100, 41, 32, 61, 61, 61>>
    ELSE IF kind = "log"
        THEN <<61, 61, 61, 32, 82, 101, 99, 101, 110, 116, 32, 67, 111, 109, 109, 105, 116,
               115, 32, 61, 61, 61>>
    ELSE IF kind = "branch"
        THEN <<61, 61, 61, 32, 66, 114, 97, 110, 99, 104, 101, 115, 32, 61, 61, 61>>
    ELSE <<61, 61, 61, 32>> \o path \o <<32, 61, 61, 61>>

\* format!("=== ... ===\n{}", content): the String a section is
SectionText(sec) == Label(sec.kind, sec.path) \o <<10>> \o sec.content

Task(kind, path) == [kind |-> kind, path |-> path, done |-> FALSE, res |-> None]

\* mutant: the git tasks pushed in the declaration order of the flags
GitTasksDeclOrder(n) ==
    (IF n.git_diff THEN <<Task("diff", << >>)>> ELSE << >>)
    \o (IF n.git_diff_staged THEN <<Task("staged", << >>)>> ELSE << >>)
    \o (IF n.git_status THEN <<Task("status", << >>)>> ELSE << >>)
    \o (IF n.git_log THEN <<Task("log", << >>)>> ELSE << >>)
    \o (IF n.git_branch THEN <<Task("branch", << >>)>> ELSE << >>)

\* the tasks gather_context pushes, in the order it pushes them
GitTasks(n) ==
    (IF n.git_status THEN <<Task("status", << >>)>> ELSE << >>)
    \o (IF n.git_diff THEN <<Task("diff", << >>)>> ELSE << >>)
    \o (IF n.git_diff_staged THEN <<Task("staged", << >>)>> ELSE << >>)
    \o (IF n.git_log THEN <<Task("log", << >>)>> ELSE << >>)
    \o (IF n.git_branch THEN <<Task("branch", << >>)>> ELSE << >>)

\* mutant: the file tree is scanned whether or not it was asked for
SpawnedTasksAlwaysTree(n, repo) ==
    <<Task("tree", << >>)>>
    \o (IF repo THEN GitTasks(n) ELSE << >>)
    \o [i \in 1..Len(n.read_files) |-> Task("file", n.read_files[i])]

SpawnedTasks(n, repo) ==
    (IF n.file_tree THEN <<Task("tree", << >>)>> ELSE << >>)
    \o (IF repo THEN GitTasks(n) ELSE << >>)
    \o [i \in 1..Len(n.read_files) |-> Task("file", n.read_files[i])]

\* the outputs the collectors can meet: an external command fails, prints
\* nothing, prints blank lines, or prints "x\n"; file a is unreadable or
\* empty, any other file is unreadable or holds "x\n"
CmdOutcomes == {Failed, Gave(<< >>), Gave(<<10>>), Gave(<<120, 10>>)}
FileOutcomes(path) ==
    IF path = FileA THEN {Failed, Gave(<< >>)} ELSE {Failed, Gave(<<120, 10>>)}

\* gather_context, lines 389-457: is_git_repo() is asked and the tasks are spawned
GatherSpawn ==
    /\ pc = "gather"
    /\ \E repo \in BOOLEAN :
        /\ is_git_repo' = repo
        /\ tasks' = SpawnedTasks(needs, repo)
    /\ pc' = "gather_wait"
    /\ UNCHANGED <<hung, extra_context>>
    /\ UNCHANGED <<unit, stdin, cliVars, routeVars, genVars, outVars>>

\* what a task can return, given what its command or file can do
TaskResults(t) ==
    IF t.kind = "tree" THEN {TreeSection(o, o2) : o \in CmdOutcomes, o2 \in CmdOutcomes}
    ELSE IF t.kind = "file" THEN {read_file_head(t.path, f) : f \in FileOutcomes(t.path)}
    ELSE {CommandSection(t.kind, o) : o \in CmdOutcomes}

\* one spawned task runs to its end, in any order with the others
TaskFinish(i) ==
    /\ pc = "gather_wait"
    /\ ~tasks[i].done
    /\ i \notin hung
    /\ \E res \in TaskResults(tasks[i]) :
        tasks' = [tasks EXCEPT ![i] = [@ EXCEPT !.done = TRUE, !.res = res]]
    /\ UNCHANGED <<unit, pc, stdin, cliVars, routeVars, is_git_repo, hung, extra_context, genVars,
                   outVars>>

\* lines 362-372: the process a command task started never exits, and
\* .output().await, which carries no time-out, never returns (a run in which
\* a task just never finishes is a run of Spec already, which has no
\* fairness; SpecLive, which has, names it)
TaskHang(i) ==
    /\ pc = "gather_wait"
    /\ ~tasks[i].done
    /\ i \notin hung
    /\ tasks[i].kind # "file"
    /\ hung' = hung \cup {i}
    /\ UNCHANGED <<unit, pc, stdin, cliVars, routeVars, is_git_repo, tasks, extra_context, genVars,
                   outVars>>

\* filter_map(|r| r.ok().flatten()) over the results in task order: a task
\* that returned None and a task that ended in a JoinError (it panicked) both
\* give nothing, and both are the result None here
Sections(ts) ==
    LET kept == SelectSeq(ts, LAMBDA t : t.res.some) IN
    [i \in 1..Len(kept) |-> kept[i].res.sec]

\* mutant: the results are taken as soon as one task has finished
GatherJoinFirstCome ==
    /\ pc = "gather_wait"
    /\ \E i \in 1..Len(tasks) : tasks[i].done
    /\ extra_context' = Sections(tasks)
    /\ pc' = "prompt"
    /\ UNCHANGED <<unit, stdin, cliVars, routeVars, is_git_repo, tasks, hung, genVars, outVars>>

\* lines 459-467: join_all has every result; the sections are joined in task
\* order (the model keeps the sections of the "\n\n"-joined String apart: the
\* String is empty exactly when there is no section)
GatherJoin ==
    /\ pc = "gather_wait"
    /\ \A i \in 1..Len(tasks) : tasks[i].done
    /\ extra_context' = Sections(tasks)
    /\ pc' = "prompt"
    /\ UNCHANGED <<unit, stdin, cliVars, routeVars, is_git_repo, tasks, hung, genVars, outVars>>

----------------------------------------------------------------------------
(* main: the command line *)

QuickFlags   == {<<45, 113>>, <<45, 45, 113, 117, 105, 99, 107>>}                 \* -q --quick
YesFlags     == {<<45, 121>>, <<45, 45, 121, 101, 115>>}                          \* -y --yes
HelpFlags    == {<<45, 104>>, <<45, 45, 104, 101, 108, 112>>}                     \* -h --help
VersionFlags == {<<45, 118>>, <<45, 45, 118, 101, 114, 115, 105, 111, 110>>}      \* -v --version
VerboseFlags == {<<45, 86>>, <<45, 45, 118, 101, 114, 98, 111, 115, 101>>}        \* -V --verbose

\* mutant: the flags are looked up by kind, not in argument order: help wins
\* over version wherever it stands
ScanArgsHelpWins(rest, st) ==
    IF \E i \in 1..Len(rest) : rest[i] \in HelpFlags THEN [st EXCEPT !.stop = "help"]
    ELSE IF \E i \in 1..Len(rest) : rest[i] \in VersionFlags THEN [st EXCEPT !.stop = "version"]
    ELSE [st EXCEPT !.quick_mode = \E i \in 1..Len(rest) : rest[i] \in QuickFlags,
                    !.auto_confirm = \E i \in 1..Len(rest) : rest[i] \in YesFlags,
                    !.prompt_args = SelectSeq(rest, LAMBDA a : a = << >> \/ a[1] # 45)]

\* the loop of lines 1194-1213 over the arguments still to read; `stop` is
\* the flag that made main return
RECURSIVE ScanArgs(_, _)
ScanArgs(rest, st) ==
    IF rest = << >> THEN st
    ELSE LET arg == Head(rest) IN
         IF arg \in VerboseFlags THEN ScanArgs(Tail(rest), st)
         ELSE IF arg \in QuickFlags THEN ScanArgs(Tail(rest), [st EXCEPT !.quick_mode = TRUE])
         ELSE IF arg \in HelpFlags THEN [st EXCEPT !.stop = "help"]
         ELSE IF arg \in VersionFlags THEN [st EXCEPT !.stop = "version"]
         ELSE IF arg \in YesFlags THEN ScanArgs(Tail(rest), [st EXCEPT !.auto_confirm = TRUE])
         ELSE IF arg = << >> \/ arg[1] # 45
              THEN ScanArgs(Tail(rest), [st EXCEPT !.prompt_args = Append(@, arg)])
         ELSE ScanArgs(Tail(rest), st)

Scanned(a) ==
    ScanArgs(a, [quick_mode |-> FALSE, auto_confirm |-> FALSE, prompt_args |-> << >>,
                 stop |-> "none"])

UsageExit == 1          \* std::process::exit(1): no intent
RejectExit == 2         \* std::process::exit(2): empty or unsafe command

\* mutant: a failed generation leaves with the rejection's status
ModelErrorExitAsReject == RejectExit

ModelErrorExit == 3     \* std::process::exit(3): the generation call failed
PanicExit == 101        \* the exit status of a Rust panic

Written(kind, text) == [kind |-> kind, text |-> text]

\* main, lines 1188-1243 (the sub-commands config / models / init are other
\* programs behind the same binary and are not among the arguments drawn)
ParseArgs ==
    /\ pc = "args"
    /\ LET st == Scanned(args) IN
       IF st.stop = "help" THEN
            /\ stderr' = Append(stderr, Written("usage", << >>))
            /\ exit_code' = 0
            /\ pc' = "done"
            /\ UNCHANGED <<quick_mode, auto_confirm, intent, stdout>>
       ELSE IF st.stop = "version" THEN
            /\ stdout' = Append(stdout, Written("version", << >>))
            /\ exit_code' = 0
            /\ pc' = "done"
            /\ UNCHANGED <<quick_mode, auto_confirm, intent, stderr>>
       ELSE IF st.prompt_args = << >> THEN
            /\ stderr' = Append(stderr, Written("usage", << >>))
            /\ exit_code' = UsageExit
            /\ pc' = "done"
            /\ quick_mode' = st.quick_mode
            /\ auto_confirm' = st.auto_confirm
            /\ UNCHANGED <<intent, stdout>>
       ELSE
            /\ quick_mode' = st.quick_mode
            /\ auto_confirm' = st.auto_confirm
            /\ intent' = Trim(Join(st.prompt_args, <<32>>))
            /\ pc' = IF st.quick_mode THEN "quick" ELSE "stdin"
            /\ UNCHANGED <<stdout, stderr, exit_code>>
    /\ args' = IF Scanned(args).stop = "none" /\ Scanned(args).prompt_args # << >>
               THEN << >> ELSE args
    /\ UNCHANGED <<unit, stdin, is_tty, router_enabled, needs, router, gatherVars,
                   genVars, raw, sanitized, command, input, clipboard, shell>>

\* build_prompt: the generic template, without extra context
GenericPrompt == [template |-> "generic", context |-> FALSE]

\* main, lines 1245-1254: quick mode builds the prompt from the bare intent,
\* which is not read again
QuickPrompt ==
    /\ pc = "quick"
    /\ prompt' = GenericPrompt
    /\ intent' = << >>
    /\ pc' = "send"
    /\ UNCHANGED <<unit, stdin, cliVars, needs, router, gatherVars, requests, wire, chunk,
                   full_response, result, in_think_block, first_visible_token,
                   got_first_token, spinner, generation_result, outVars>>

StdinBudget == 10000    \* chars of piped input kept
InputLabel == <<32, 10, 73, 110, 112, 117, 116, 58, 10>>    \* " \nInput:\n"

\* lines 611-615
full_intent(i, data) ==
    IF Trim(data) # << >> THEN i \o InputLabel \o Take(data, StdinBudget) ELSE i

\* run_interactive_with_routing, lines 593-623: piped standard input is read
\* to its end; without a terminal on standard output routing is skipped
ReadStdin ==
    /\ pc = "stdin"
    /\ stdin' = IF stdin.tty THEN stdin
                 ELSE [stdin EXCEPT !.data = << >>, !.reads = @ + 1]
    /\ IF ~is_tty
       THEN /\ prompt' = GenericPrompt
            /\ intent' = << >>
            /\ pc' = "send"
       ELSE /\ prompt' = prompt
            /\ intent' = IF stdin.tty THEN intent ELSE full_intent(intent, stdin.data)
            /\ pc' = IF router_enabled THEN "route" ELSE "prompt"
    /\ UNCHANGED <<unit, cliVars, needs, router, gatherVars, requests, wire, chunk,
                   full_response, result, in_think_block, first_visible_token,
                   got_first_token, spinner, generation_result, outVars>>

----------------------------------------------------------------------------
(* Phase 1: the router call and the commit override *)

CommitWord == <<99, 111, 109, 109, 105, 116>>               \* "commit"
ViewingWords == {
    <<115, 104, 111, 119>>,                                  \* "show"
    <<108, 105, 115, 116>>,                                  \* "list"
    <<108, 97, 115, 116>>,                                   \* "last"
    <<114, 101, 99, 101, 110, 116>>,                         \* "recent"
    <<118, 105, 101, 119>>,                                  \* "view"
    <<104, 105, 115, 116, 111, 114, 121>>                    \* "history"
}

\* mutant: the intent is searched as written, not lower-cased
is_creating_commit_case_sensitive(text) ==
    /\ Contains(text, CommitWord)
    /\ \A w \in ViewingWords : ~Contains(text, w)

\* lines 708-715 (and 529-536 of build_prompt_with_context)
is_creating_commit(text) ==
    LET intent_lower == ToLowercase(text) IN
    /\ Contains(intent_lower, CommitWord)
    /\ \A w \in ViewingWords : ~Contains(intent_lower, w)

\* mutant: the forced needs are built from the defaults, not from the
\* router's result
CommitOverrideFromDefault(text, n) ==
    IF is_creating_commit(text) /\ ~n.git_diff /\ ~n.git_status
    THEN [DefaultNeeds EXCEPT !.git_diff = TRUE, !.git_status = TRUE, !.git_log = TRUE]
    ELSE n

\* lines 716-728
CommitOverride(text, n) ==
    IF is_creating_commit(text) /\ ~n.git_diff /\ ~n.git_status
    THEN [n EXCEPT !.git_diff = TRUE, !.git_status = TRUE, !.git_log = TRUE]
    ELSE n

\* lines 743-749
needs_any(n) ==
    \/ n.git_diff \/ n.git_diff_staged \/ n.git_status \/ n.git_log
    \/ n.git_branch \/ n.file_tree \/ n.read_files # << >>

\* a request to POST /api/generate: generate_ollama_streaming always names
\* config.ollama_model (line 285), whichever phase calls it
Request(phase, format) == [phase |-> phase, model |-> "ollama_model", format |-> format]

\* lines 651-677: the router request is sent from a spawned task
RouterSend ==
    /\ pc = "route"
    /\ requests' = Append(requests, Request("router", "json"))
    /\ router' = [router EXCEPT !.state = "pending"]
    /\ pc' = "route_wait"
    /\ UNCHANGED <<unit, stdin, cliVars, intent, needs, gatherVars, prompt, wire, chunk,
                   full_response, result, in_think_block, first_visible_token,
                   got_first_token, spinner, generation_result, outVars>>

\* the responses the router model gives in the pipeline
RouterNeeds == {
    DefaultNeeds,
    NeedsDiff,
    Needs(FALSE, FALSE, TRUE, FALSE, FALSE, FALSE, << >>),
    Needs(TRUE, FALSE, TRUE, FALSE, FALSE, FALSE, << >>),
    Needs(FALSE, TRUE, FALSE, FALSE, TRUE, FALSE, << >>),
    Needs(FALSE, FALSE, FALSE, FALSE, FALSE, TRUE, <<FileB>>)
}

RouterResponses ==
    {<<Tok("lb"), Members(n), Tok("rb")>> : n \in RouterNeeds}
    \cup {<<Tok("txt")>>,
          <<Tok("lb"), Tok("bad"), Tok("rb")>>,
          <<Tok("txt"), Tok("lb"), Members(NeedsDiff), Tok("rb"), Tok("ws")>>,
          <<Tok("rb"), Tok("txt"), Tok("lb")>>}

\* what handle.await gives: the task failed (JoinError), the call failed
\* (transport error, time-out), or the response text
RouterOutcomes ==
    {[kind |-> "join_failed", response |-> << >>], [kind |-> "failed", response |-> << >>]}
    \cup {[kind |-> "answered", response |-> r] : r \in RouterResponses}

\* lines 698-776: the outcome is matched, the response parsed on the
\* coordinating flow, the override applied, and the collectors chosen
RouterFinish ==
    /\ pc = "route_wait"
    /\ \E o \in RouterOutcomes :
        LET parsed == IF o.kind = "answered" THEN parse_router_response(o.response)
                      ELSE Returned(DefaultNeeds)
            forced == CommitOverride(intent, parsed.needs)
        IN  IF parsed.panic THEN
                /\ router' = [state |-> "panicked", response |-> o.response,
                              result |-> DefaultNeeds]
                /\ exit_code' = PanicExit
                /\ pc' = "done"
                /\ needs' = needs
            ELSE
                /\ router' = [state |-> o.kind, response |-> o.response,
                              result |-> parsed.needs]
                /\ needs' = forced
                /\ pc' = IF needs_any(forced) THEN "gather" ELSE "prompt"
                /\ exit_code' = exit_code
    /\ UNCHANGED <<unit, stdin, cliVars, intent, gatherVars, genVars, stdout, stderr, raw,
                   sanitized, command, input, clipboard, shell>>

\* mutant: "history" is missing from the words that mark viewing
is_commit_without_history(text) ==
    LET intent_lower == ToLowercase(text) IN
    /\ Contains(intent_lower, CommitWord)
    /\ \A w \in ViewingWords \ {<<104, 105, 115, 116, 111, 114, 121>>} :
            ~Contains(intent_lower, w)

\* build_prompt_with_context, lines 529-536: its own copy of the test
is_commit(text) ==
    LET intent_lower == ToLowercase(text) IN
    /\ Contains(intent_lower, <<99, 111, 109, 109, 105, 116>>)
    /\ ~Contains(intent_lower, <<115, 104, 111, 119>>)
    /\ ~Contains(intent_lower, <<108, 105, 115, 116>>)
    /\ ~Contains(intent_lower, <<108, 97, 115, 116>>)
    /\ ~Contains(intent_lower, <<114, 101, 99, 101, 110, 116>>)
    /\ ~Contains(intent_lower, <<118, 105, 101, 119>>)
    /\ ~Contains(intent_lower, <<104, 105, 115, 116, 111, 114, 121>>)

\* lines 524-538 and 779-783: the template of the final prompt
Template(text, context) ==
    IF context = << >> THEN "generic"
    ELSE IF is_commit(text) THEN "commit"
    ELSE "generic_with_context"

\* lines 778-810: the final prompt is built; the locals of the routing phase
\* are not read again
BuildPrompt ==
    /\ pc = "prompt"
    /\ prompt' = [template |-> Template(intent, extra_context),
                  context |-> extra_context # << >>]
    /\ intent' = << >>
    /\ needs' = DefaultNeeds
    /\ router' = [router EXCEPT !.response = << >>, !.result = DefaultNeeds]
    /\ is_git_repo' = FALSE
    /\ tasks' = << >>
    /\ hung' = hung
    /\ extra_context' = << >>
    /\ pc' = "send"
    /\ UNCHANGED <<unit, stdin, cliVars, requests, wire, chunk, full_response,
                   result, in_think_block, first_visible_token, got_first_token, spinner,
                   generation_result, outVars>>

----------------------------------------------------------------------------
(* Phase 2: generate_ollama_streaming and the on_token closure *)

ThinkOpen == <<60, 116, 104, 105, 110, 107, 62>>            \* "<think>"
ThinkClose == <<60, 47, 116, 104, 105, 110, 107, 62>>       \* "</think>"

\* a line of a chunk: a frame {response, done}, text that is no frame
\* ("bad"), or an empty line
Frame(text, done) == [kind |-> "frame", response |-> text, done |-> done]
BadLine == [kind |-> "bad", response |-> << >>, done |-> FALSE]
EmptyLine == [kind |-> "empty", response |-> << >>, done |-> FALSE]

\* an item of the byte stream: a chunk of lines, or a transport error
Chunk(lines) == [err |-> FALSE, lines |-> lines]
StreamError == [err |-> TRUE, lines |-> << >>]

\* the closure handed to generate_ollama_streaming: the TUI's (lines
\* 857-891) with a terminal, |_| {} (generate_ollama_quiet) without
Interactive == ~quick_mode /\ is_tty

\* mutant: fragments inside a think block are shown like the others
on_token_shows_reasoning(c, token) ==
    IF Contains(token, ThinkOpen) THEN [c EXCEPT !.in_think_block = TRUE]
    ELSE IF Contains(token, ThinkClose) THEN [c EXCEPT !.in_think_block = FALSE]
    ELSE IF Trim(token) = << >> /\ c.first_visible_token THEN c
    ELSE [c EXCEPT !.got_first_token = (c.first_visible_token \/ @),
                   !.first_visible_token = FALSE,
                   !.printed = Append(@, Written("token", token)),
                   !.result = @ \o token]

\* mutant: a blank fragment counts as the first visible token
on_token_fires_on_blank(c, token) ==
    IF Contains(token, ThinkOpen) THEN [c EXCEPT !.in_think_block = TRUE]
    ELSE IF Contains(token, ThinkClose) THEN [c EXCEPT !.in_think_block = FALSE]
    ELSE IF c.in_think_block THEN c
    ELSE [c EXCEPT !.got_first_token = (c.first_visible_token \/ @),
                   !.first_visible_token = FALSE,
                   !.printed = Append(@, Written("token", token)),
                   !.result = @ \o token]

\* lines 857-891 on the closure's state c = [in_think_block,
\* first_visible_token, got_first_token, result, printed]
on_token(c, token) ==
    IF Contains(token, ThinkOpen) THEN [c EXCEPT !.in_think_block = TRUE]
    ELSE IF Contains(token, ThinkClose) THEN [c EXCEPT !.in_think_block = FALSE]
    ELSE IF c.in_think_block THEN c
    ELSE IF Trim(token) = << >> /\ c.first_visible_token THEN c
    ELSE [c EXCEPT !.got_first_token = (c.first_visible_token \/ @),
                   !.first_visible_token = FALSE,
                   !.printed = Append(@, Written("token", token)),
                   !.result = @ \o token]

\* the streams the generation backend sends in the pipeline
Ls == <<108, 115>>                                          \* "ls"
PipelineWires == {
    [connect |-> FALSE, items |-> << >>],
    [connect |-> TRUE, items |-> <<Chunk(<<Frame(Ls, TRUE)>>)>>],
    [connect |-> TRUE, items |-> <<Chunk(<<Frame(RmRfRoot, TRUE)>>)>>],
    [connect |-> TRUE, items |-> <<Chunk(<<Frame(<< >>, TRUE)>>)>>],
    [connect |-> TRUE, items |-> <<Chunk(<<Frame(ThinkOpen, FALSE), Frame(RmRfRoot, FALSE),
                                          Frame(ThinkClose, FALSE)>>),
                                  Chunk(<<Frame(Ls, TRUE)>>)>>],
    [connect |-> TRUE, items |-> <<Chunk(<<Frame(Ls, FALSE)>>), StreamError>>],
    [connect |-> TRUE, items |-> <<Chunk(<<BadLine, EmptyLine>>),
                                  Chunk(<<Frame(<<32>>, FALSE), Frame(Fence \o <<10>> \o Ls, FALSE),
                                          Frame(<<10>> \o Fence, FALSE)>>)>>],
    [connect |-> TRUE, items |-> <<Chunk(<<Frame(Ls, TRUE), Frame(<<32>> \o RmRfStar, FALSE)>>),
                                  Chunk(<<Frame(<<32, 45, 108>>, FALSE)>>)>>]
}

\* lines 812-856 and 279-292: with the TUI the spinner task is spawned; the
\* request is posted; send().await? fails the call when the backend cannot
\* be reached
GenSend ==
    /\ pc = "send"
    /\ spinner' = IF Interactive THEN "running" ELSE spinner
    /\ requests' = Append(requests, Request("generate", "none"))
    /\ \E w \in PipelineWires :
        /\ wire' = w
        /\ IF w.connect
           THEN pc' = "stream" /\ generation_result' = generation_result
           ELSE pc' = "gen_done" /\ generation_result' = "err"
    /\ UNCHANGED <<unit, stdin, cliVars, routeVars, gatherVars, prompt, chunk,
                   full_response, result, in_think_block, first_visible_token,
                   got_first_token, outVars>>

\* line 296-297: the next item of the byte stream; `item?` fails the call
RecvItem ==
    /\ pc = "stream"
    /\ chunk = << >>
    /\ wire.items # << >>
    /\ wire' = [wire EXCEPT !.items = Tail(@)]
    /\ IF Head(wire.items).err
       THEN /\ generation_result' = "err"
            /\ pc' = "gen_done"
            /\ chunk' = chunk
       ELSE /\ chunk' = Head(wire.items).lines
            /\ UNCHANGED <<generation_result, pc>>
    /\ UNCHANGED <<unit, stdin, cliVars, routeVars, gatherVars, prompt, requests,
                   full_response, result, in_think_block, first_visible_token,
                   got_first_token, spinner, outVars>>

\* mutant: a line that is no frame fails the call
ProcessLineFailsOnMalformed ==
    /\ pc = "stream"
    /\ chunk # << >>
    /\ LET line == Head(chunk)
           c == [in_think_block |-> in_think_block,
                 first_visible_token |-> first_visible_token,
                 got_first_token |-> got_first_token,
                 result |-> result, printed |-> stdout]
           d == IF Interactive THEN on_token(c, line.response) ELSE c
       IN  IF line.kind = "frame" THEN
                /\ full_response' = full_response \o line.response
                /\ in_think_block' = d.in_think_block
                /\ first_visible_token' = d.first_visible_token
                /\ got_first_token' = d.got_first_token
                /\ result' = d.result
                /\ stdout' = d.printed
                /\ chunk' = IF line.done THEN << >> ELSE Tail(chunk)
                /\ UNCHANGED <<pc, generation_result>>
           ELSE /\ chunk' = Tail(chunk)
                /\ pc' = IF line.kind = "bad" THEN "gen_done" ELSE pc
                /\ generation_result' = IF line.kind = "bad" THEN "err" ELSE generation_result
                /\ UNCHANGED <<full_response, in_think_block, first_visible_token,
                               got_first_token, result, stdout>>
    /\ UNCHANGED <<unit, stdin, cliVars, routeVars, gatherVars, prompt, requests, wire,
                   spinner, stderr, raw, sanitized, command, input, clipboard, shell,
                   exit_code>>

\* lines 298-312: one line of the chunk; an empty line and a line that is no
\* frame are skipped; a frame with done leaves the loop over this chunk
ProcessLine ==
    /\ pc = "stream"
    /\ chunk # << >>
    /\ LET line == Head(chunk)
           c == [in_think_block |-> in_think_block,
                 first_visible_token |-> first_visible_token,
                 got_first_token |-> got_first_token,
                 result |-> result, printed |-> stdout]
           d == IF Interactive THEN on_token(c, line.response) ELSE c
       IN  IF line.kind = "frame" THEN
                /\ full_response' = full_response \o line.response
                /\ in_think_block' = d.in_think_block
                /\ first_visible_token' = d.first_visible_token
                /\ got_first_token' = d.got_first_token
                /\ result' = d.result
                /\ stdout' = d.printed
                /\ chunk' = IF line.done THEN << >> ELSE Tail(chunk)
           ELSE /\ chunk' = Tail(chunk)
                /\ UNCHANGED <<full_response, in_think_block, first_visible_token,
                               got_first_token, result, stdout>>
    /\ UNCHANGED <<unit, pc, stdin, cliVars, routeVars, gatherVars, prompt, requests, wire,
                   spinner, generation_result, stderr, raw, sanitized, command, input,
                   clipboard, shell, exit_code>>

\* line 296, 315: the stream has ended; Ok(full_response)
StreamEnd ==
    /\ pc = "stream"
    /\ chunk = << >>
    /\ wire.items = << >>
    /\ generation_result' = "ok"
    /\ pc' = "gen_done"
    /\ UNCHANGED <<unit, stdin, cliVars, routeVars, gatherVars, prompt, requests, wire,
                   chunk, full_response, result, in_think_block, first_visible_token,
                   got_first_token, spinner, outVars>>

\* mutant: the flag is stored only when the generation call succeeded
StopSpinnerOnSuccess ==
    /\ pc = "gen_done"
    /\ Interactive
    /\ got_first_token' = (generation_result = "ok" \/ got_first_token)
    /\ pc' = "join"
    /\ UNCHANGED <<unit, stdin, cliVars, routeVars, gatherVars, prompt, requests, wire,
                   chunk, full_response, result, in_think_block, first_visible_token,
                   spinner, generation_result, outVars>>

\* lines 893-895: the generation call has returned, with Ok or Err; the
\* flag is stored and the spinner task awaited
StopSpinner ==
    /\ pc = "gen_done"
    /\ Interactive
    /\ got_first_token' = TRUE
    /\ pc' = "join"
    /\ UNCHANGED <<unit, stdin, cliVars, routeVars, gatherVars, prompt, requests, wire,
                   chunk, full_response, result, in_think_block, first_visible_token,
                   spinner, generation_result, outVars>>

\* line 823, the spinner task: `while !got_first_token.load(..)`; the pass
\* that finds the flag set ends the task, a pass that finds it clear goes
\* on into the loop body
SpinnerPoll ==
    /\ spinner = "running"
    /\ spinner' = IF got_first_token THEN "stopped" ELSE "drawing"
    /\ UNCHANGED <<unit, pc, stdin, cliVars, routeVars, gatherVars, prompt, requests, wire,
                   chunk, full_response, result, in_think_block, first_visible_token,
                   got_first_token, generation_result, outVars>>

\* lines 824-849, the loop body: the line is cleared and a frame drawn (the
\* frames are not kept in stdout), then the task sleeps 80 ms; the flag is
\* not looked at again before the next pass
SpinnerDraw ==
    /\ spinner = "drawing"
    /\ spinner' = "running"
    /\ UNCHANGED <<unit, pc, stdin, cliVars, routeVars, gatherVars, prompt, requests, wire,
                   chunk, full_response, result, in_think_block, first_visible_token,
                   got_first_token, generation_result, outVars>>

\* mutant: a failed generation call is made again
GenDoneRetries ==
    /\ \/ pc = "gen_done" /\ ~Interactive
       \/ pc = "join" /\ spinner = "stopped"
    /\ IF generation_result = "err"
       THEN /\ pc' = "send"
            /\ UNCHANGED <<stderr, exit_code, raw>>
       ELSE /\ raw' = IF Interactive THEN result ELSE full_response
            /\ pc' = "clean"
            /\ UNCHANGED <<stderr, exit_code>>
    /\ UNCHANGED <<unit, stdin, cliVars, routeVars, gatherVars, prompt, requests, wire,
                   chunk, full_response, result, in_think_block, first_visible_token,
                   got_first_token, spinner, generation_result, stdout, sanitized, command,
                   input, clipboard, shell>>

\* lines 895-912 and 1255-1271: once the spinner task has ended (the quiet
\* generator has none) a failed call ends the process, a successful one
\* hands its text to main
GenDone ==
    /\ \/ pc = "gen_done" /\ ~Interactive
       \/ pc = "join" /\ spinner = "stopped"
    /\ IF generation_result = "err"
       THEN /\ stderr' = Append(stderr, Written("model error", << >>))
            /\ exit_code' = ModelErrorExit
            /\ pc' = "done"
            /\ raw' = raw
       ELSE /\ raw' = IF Interactive THEN result ELSE full_response
            /\ pc' = "clean"
            /\ UNCHANGED <<stderr, exit_code>>
    /\ UNCHANGED <<unit, stdin, cliVars, routeVars, gatherVars, prompt, requests, wire,
                   chunk, full_response, result, in_think_block, first_visible_token,
                   got_first_token, spinner, generation_result, stdout, sanitized, command,
                   input, clipboard, shell>>

----------------------------------------------------------------------------
(* main: sanitize, safety gate, print / copy / execute *)

\* mutant: only an unsafe command is turned away, an empty one goes on
RejectedUnlessEmpty(cmd) == ~is_safe(cmd)

\* line 1274
Rejected(cmd) == cmd = << >> \/ ~is_safe(cmd)

\* lines 1273-1276
Sanitize ==
    /\ pc = "clean"
    /\ command' = clean_command(raw)
    /\ sanitized' = TRUE
    /\ IF Rejected(clean_command(raw))
       THEN exit_code' = RejectExit /\ pc' = "done"
       ELSE exit_code' = exit_code /\ pc' = "output"
    /\ UNCHANGED <<unit, stdin, cliVars, routeVars, gatherVars, genVars, stdout, stderr,
                   raw, input, clipboard, shell>>

\* mutant: only --quick makes the run print-only, a pipe on standard
\* output does not
PrintsOnlyWhenQuick == quick_mode /\ ~auto_confirm

\* mutant: -y does not take the run out of the print-only branch
PrintsOnlyDespiteYes == quick_mode \/ ~is_tty

\* line 1279: the command is only printed
PrintsOnly == (quick_mode \/ ~is_tty) /\ ~auto_confirm

\* println!("{}", ..), line 1280: the text and a line feed
Println(text) == text \o <<10>>

\* lines 1279-1305: the command is printed; or it is copied (when the
\* clipboard tool can be started) and then run at once under -y, or the run
\* prompt is shown
Output ==
    /\ pc = "output"
    /\ IF PrintsOnly THEN
            /\ stdout' = Append(stdout, Written("command", command))
            /\ exit_code' = 0
            /\ pc' = "done"
            /\ UNCHANGED <<clipboard, shell>>
       ELSE \E copied \in BOOLEAN :
            /\ clipboard' = IF copied THEN Append(clipboard, command) ELSE clipboard
            /\ IF ~is_safe(command) THEN
                    /\ exit_code' = 0
                    /\ pc' = "done"
                    /\ UNCHANGED <<stdout, shell>>
               ELSE IF auto_confirm THEN
                    /\ stdout' = Append(stdout, Written("running", command))
                    /\ shell' = Append(shell, command)
                    /\ exit_code' = 0
                    /\ pc' = "done"
               ELSE
                    /\ stdout' = Append(stdout, Written("ask", << >>))
                    /\ pc' = "ask"
                    /\ UNCHANGED <<shell, exit_code>>
    /\ UNCHANGED <<unit, stdin, cliVars, routeVars, gatherVars, genVars, stderr, raw,
                   sanitized, command, input>>

\* what read_line can give at the prompt: a terminal gives the line the
\* user types, or nothing at end-of-file (Ctrl-D); a pipe gives what is left
\* of it; bytes that are not UTF-8 make read_line fail
Typed == {<<10>>, <<113, 10>>, <<32, 10>>, << >>}    \* "\n", "q\n", " \n", EOF

Answers ==
    {[ok |-> FALSE, line |-> << >>]}
    \cup (IF stdin.tty THEN {[ok |-> TRUE, line |-> l] : l \in Typed}
          ELSE {[ok |-> TRUE, line |-> stdin.data]})

\* lines 1307-1327: the answer is read; the command runs when the trimmed
\* answer is empty
Ask ==
    /\ pc = "ask"
    /\ \E a \in Answers :
        /\ stdin' = [stdin EXCEPT !.reads = @ + 1]
        /\ IF ~a.ok THEN
                /\ exit_code' = PanicExit
                /\ UNCHANGED <<input, stdout, shell>>
           ELSE IF Trim(a.line) = << >> THEN
                /\ input' = a.line
                /\ stdout' = Append(stdout, Written("running", command))
                /\ shell' = Append(shell, command)
                /\ exit_code' = 0
           ELSE /\ input' = a.line
                /\ exit_code' = 0
                /\ UNCHANGED <<stdout, shell>>
    /\ pc' = "done"
    /\ UNCHANGED <<unit, cliVars, routeVars, gatherVars, genVars, stderr, raw, sanitized,
                   command, clipboard>>

----------------------------------------------------------------------------
(* Spec: one invocation of `mate` *)

MaxArgs == 3

\* -q, -y, -h, -v, "Commit", "show"
ArgChoices == {<<45, 113>>, <<45, 121>>, <<45, 104>>, <<45, 118>>,
               <<67, 111, 109, 109, 105, 116>>, <<115, 104, 111, 119>>}

\* standard input: a terminal, an empty pipe, or a pipe holding "view"
StdinChoices == {[tty |-> TRUE, data |-> << >>, reads |-> 0],
                 [tty |-> FALSE, data |-> << >>, reads |-> 0],
                 [tty |-> FALSE, data |-> <<118, 105, 101, 119>>, reads |-> 0]}

NoUnit == [fn |-> "none", arg |-> << >>, ret |-> FALSE, done |-> TRUE]

\* the locals of the pipeline before main has set them
FreshGen ==
    /\ prompt = GenericPrompt
    /\ requests = << >>
    /\ wire = [connect |-> FALSE, items |-> << >>]
    /\ chunk = << >>
    /\ full_response = << >>
    /\ result = << >>
    /\ in_think_block = FALSE
    /\ first_visible_token = TRUE
    /\ got_first_token = FALSE
    /\ spinner = "idle"
    /\ generation_result = "pending"

FreshOut ==
    /\ stdout = << >>
    /\ stderr = << >>
    /\ raw = << >>
    /\ sanitized = FALSE
    /\ command = << >>
    /\ input = << >>
    /\ clipboard = << >>
    /\ shell = << >>
    /\ exit_code = -1

FreshRoute ==
    /\ router = [state |-> "idle", response |-> << >>, result |-> DefaultNeeds]
    /\ is_git_repo = FALSE
    /\ tasks = << >>
    /\ hung = {}
    /\ extra_context = << >>

FreshLocals ==
    /\ quick_mode = FALSE
    /\ auto_confirm = FALSE
    /\ FreshRoute
    /\ FreshGen
    /\ FreshOut

FreshButNeeds == intent = << >> /\ FreshLocals

Fresh == needs = DefaultNeeds /\ FreshButNeeds

Init ==
    /\ unit = NoUnit
    /\ pc = "args"
    /\ args \in SeqsUpTo(ArgChoices, MaxArgs)
    /\ is_tty \in BOOLEAN
    /\ stdin \in StdinChoices
    /\ router_enabled \in BOOLEAN
    /\ Fresh

Next ==
    \/ ParseArgs
    \/ QuickPrompt
    \/ ReadStdin
    \/ RouterSend
    \/ RouterFinish
    \/ GatherSpawn
    \/ \E i \in 1..Len(tasks) : TaskFinish(i)
    \/ GatherJoin
    \/ BuildPrompt
    \/ GenSend
    \/ RecvItem
    \/ ProcessLine
    \/ StreamEnd
    \/ StopSpinner
    \/ SpinnerPoll
    \/ SpinnerDraw
    \/ GenDone
    \/ Sanitize
    \/ Output
    \/ Ask

Spec == Init /\ [][Next]_vars

\* SpecLive: the context phase of an interactive invocation, from the router
\* call to the generation request, with the steps the runtime and the
\* time-outs of the code guarantee: the coordinating flow and every task go
\* on while they can (the router call ends within the client's time-out,
\* line 281), but nothing ends a process that never exits
LiveIntents == {<<67, 111, 109, 109, 105, 116>>, <<115, 104, 111, 119>>}    \* "Commit", "show"

InitLive ==
    /\ unit = NoUnit
    /\ pc = "route"
    /\ args = << >>
    /\ is_tty = TRUE
    /\ stdin = [tty |-> TRUE, data |-> << >>, reads |-> 0]
    /\ router_enabled = TRUE
    /\ intent \in LiveIntents
    /\ needs = DefaultNeeds
    /\ FreshLocals

NextLive ==
    \/ RouterSend
    \/ RouterFinish
    \/ GatherSpawn
    \/ \E i \in 1..Len(tasks) : TaskFinish(i)
    \/ \E i \in 1..Len(tasks) : TaskHang(i)
    \/ GatherJoin
    \/ BuildPrompt
    \/ GenSend

SpecLive == InitLive /\ [][NextLive]_vars /\ WF_vars(NextLive)

\* the pipeline at rest, for the specifications of single functions
Idle ==
    /\ pc = "idle"
    /\ args = << >>
    /\ is_tty = FALSE
    /\ stdin = [tty |-> TRUE, data |-> << >>, reads |-> 0]
    /\ router_enabled = TRUE
    /\ Fresh

----------------------------------------------------------------------------
(* SpecSafe: is_safe applied to one command *)

InitSafe ==
    /\ Idle
    /\ unit \in {[fn |-> "is_safe", arg |-> c, ret |-> FALSE, done |-> FALSE] : c \in SafeInputs}

CallIsSafe ==
    /\ unit.fn = "is_safe"
    /\ ~unit.done
    /\ unit' = [unit EXCEPT !.ret = is_safe(unit.arg), !.done = TRUE]
    /\ UNCHANGED pipeVars

NextSafe == CallIsSafe

(* SpecRouter: parse_router_response applied to one response *)
InitRouter ==
    /\ Idle
    /\ unit \in {[fn |-> "parse_router_response", arg |-> r, ret |-> Returned(DefaultNeeds),
               done |-> FALSE] : r \in RouterInputs}

CallParseRouterResponse ==
    /\ unit.fn = "parse_router_response"
    /\ ~unit.done
    /\ unit' = [unit EXCEPT !.ret = parse_router_response(unit.arg), !.done = TRUE]
    /\ UNCHANGED pipeVars

NextRouter == CallParseRouterResponse

(* SpecGather: gather_context called with one ContextNeeds *)
MaxFlags == 2
MaxFiles == 2

FlagNames == {"git_diff", "git_diff_staged", "git_status", "git_log", "git_branch",
              "file_tree"}

\* every ContextNeeds with at most MaxFlags flags set and MaxFiles files
GatherInputs ==
    {Needs("git_diff" \in on, "git_diff_staged" \in on, "git_status" \in on,
           "git_log" \in on, "git_branch" \in on, "file_tree" \in on, f) :
        on \in {x \in SUBSET FlagNames : Cardinality(x) <= MaxFlags},
        f \in SeqsUpTo({FileA, FileB}, MaxFiles)}

InitGather ==
    /\ unit = NoUnit
    /\ pc = "gather"
    /\ args = << >>
    /\ is_tty = TRUE
    /\ stdin = [tty |-> TRUE, data |-> << >>, reads |-> 0]
    /\ router_enabled = TRUE
    /\ needs \in GatherInputs
    /\ FreshButNeeds

NextGather ==
    \/ GatherSpawn
    \/ \E i \in 1..Len(tasks) : TaskFinish(i)
    \/ GatherJoin

SpecSafe == InitSafe /\ [][NextSafe]_vars

(* SpecStream: the interactive stream consumer fed one fragment sequence,
   from the sent request to the text handed to main *)
MaxFrags == 4

ReasoningText == <<114, 101, 97, 115, 111, 110, 105, 110, 103, 32, 116, 101, 120, 116>>
RealAnswer == <<114, 101, 97, 108, 32, 97, 110, 115, 119, 101, 114>>

\* "<think>", "</think>", "reasoning text", "real answer", " "
Fragments == {ThinkOpen, ThinkClose, ReasoningText, RealAnswer, <<32>>}

\* each fragment arrives as one line {response, done: false} in a chunk of
\* its own, and the connection is closed after the last
WireOf(frags) ==
    [connect |-> TRUE,
     items |-> [i \in 1..Len(frags) |-> Chunk(<<Frame(frags[i], FALSE)>>)]]

InitStream ==
    /\ \E frags \in SeqsUpTo(Fragments, MaxFrags) :
        /\ unit = [fn |-> "on_token", arg |-> frags, ret |-> FALSE, done |-> TRUE]
        /\ wire = WireOf(frags)
    /\ pc = "stream"
    /\ args = << >>
    /\ is_tty = TRUE
    /\ stdin = [tty |-> TRUE, data |-> << >>, reads |-> 0]
    /\ router_enabled = TRUE
    /\ quick_mode = FALSE
    /\ auto_confirm = FALSE
    /\ intent = << >>
    /\ needs = DefaultNeeds
    /\ FreshRoute
    /\ prompt = GenericPrompt
    /\ requests = <<Request("generate", "none")>>
    /\ chunk = << >>
    /\ full_response = << >>
    /\ result = << >>
    /\ in_think_block = FALSE
    /\ first_visible_token = TRUE
    /\ got_first_token = FALSE
    /\ spinner = "running"
    /\ generation_result = "pending"
    /\ FreshOut

NextStream == RecvItem \/ ProcessLine \/ StreamEnd \/ StopSpinner \/ SpinnerPoll \/ SpinnerDraw
    \/ GenDone

SpecStream == InitStream /\ [][NextStream]_vars

(* SpecTemplate: the prompt compiler and the override's test applied to one
   intent *)
MaxWords == 2

\* "commit", "Commit", "ls", and the six words that mark viewing
IntentWords == {CommitWord, <<67, 111, 109, 109, 105, 116>>, <<108, 115>>} \cup ViewingWords

IntentInputs == {Trim(Join(w, <<32>>)) : w \in SeqsUpTo(IntentWords, MaxWords)}

ContextInputs == {<< >>, <<Some("status", << >>, <<77, 32, 97>>).sec>>}

InitTemplate ==
    /\ Idle
    /\ unit \in {[fn |-> f, arg |-> [intent |-> i, context |-> c], ret |-> FALSE, done |-> FALSE] :
                    f \in {"build_prompt_with_context", "is_creating_commit"},
                    i \in IntentInputs, c \in ContextInputs}

CallBuildPromptWithContext ==
    /\ unit.fn = "build_prompt_with_context"
    /\ ~unit.done
    /\ unit' = [unit EXCEPT !.ret = Template(unit.arg.intent, unit.arg.context), !.done = TRUE]
    /\ UNCHANGED pipeVars

CallIsCreatingCommit ==
    /\ unit.fn = "is_creating_commit"
    /\ ~unit.done
    /\ unit' = [unit EXCEPT !.ret = is_creating_commit(unit.arg.intent), !.done = TRUE]
    /\ UNCHANGED pipeVars

NextTemplate == CallBuildPromptWithContext \/ CallIsCreatingCommit

SpecTemplate == InitTemplate /\ [][NextTemplate]_vars

(* SpecCollector: one collector applied to what its process or file gave *)
MaxTail == 1

\* n times the character c
Fill(n, c) == [i \in 1..n |-> c]

\* texts around the budgets: a run of "x", of U+00E9 (two bytes in UTF-8) or
\* of U+20AC (three bytes), and a short tail
FillChars == {120, 233, 8364}
Tails == SeqsUpTo({120, 233}, MaxTail)
FileLengths == {0, 1, FileBudget - 1, FileBudget, FileBudget + 1}
FileInputs ==
    {Failed} \cup {Gave(Fill(n, c) \o t) : n \in FileLengths, c \in FillChars, t \in Tails}
OutputLengths == {0, TreeBudget, TreeBudget + 1, DiffBudget, DiffBudget + 1, FileBudget + 1}
OutputInputs ==
    {Failed} \cup {Gave(Fill(n, 120) \o t) : n \in OutputLengths, t \in Tails}

CollectorKinds == {"tree", "status", "diff", "staged", "log", "branch"}

NotReturned == [some |-> FALSE, sec |-> None.sec, text |-> << >>]

InitCollector ==
    /\ Idle
    /\ unit \in
        {[fn |-> "read_file_head", arg |-> [kind |-> "file", path |-> p, o |-> f, o2 |-> Failed],
          ret |-> NotReturned, done |-> FALSE] : p \in {FileA, FileB}, f \in FileInputs}
        \cup {[fn |-> "collector", arg |-> [kind |-> k, path |-> << >>, o |-> f, o2 |-> g],
               ret |-> NotReturned, done |-> FALSE] :
                   k \in CollectorKinds, f \in OutputInputs, g \in {Failed, Gave(<<120>>)}}

\* what the task's closure returns: Option<String>
Returns(res) ==
    [some |-> res.some, sec |-> res.sec,
     text |-> IF res.some THEN SectionText(res.sec) ELSE << >>]

CallReadFileHead ==
    /\ unit.fn = "read_file_head"
    /\ ~unit.done
    /\ unit' = [unit EXCEPT !.ret = Returns(read_file_head(unit.arg.path, unit.arg.o)),
                            !.done = TRUE]
    /\ UNCHANGED pipeVars

CallCollector ==
    /\ unit.fn = "collector"
    /\ ~unit.done
    /\ unit' = [unit EXCEPT
                    !.ret = Returns(IF unit.arg.kind = "tree"
                                    THEN TreeSection(unit.arg.o, unit.arg.o2)
                                    ELSE CommandSection(unit.arg.kind, unit.arg.o)),
                    !.done = TRUE]
    /\ UNCHANGED pipeVars

NextCollector == CallReadFileHead \/ CallCollector

SpecCollector == InitCollector /\ [][NextCollector]_vars

SpecRouter == InitRouter /\ [][NextRouter]_vars

SpecGather == InitGather /\ [][NextGather]_vars

(* C4: is_safe rejects every command whose lower-cased text contains one of
   "rm -rf /", "rm -rf *", "mkfs", "dd if=", ":(){ :|:& };:" (so the match is
   case-insensitive), and accepts every command that contains none of them
   and no control character. *)
Occurs(p, s) == \E i \in 0..(Len(s) - Len(p)) : SubSeq(s, i + 1, i + Len(p)) = p

DenyList == {RmRfRoot, RmRfStar, Mkfs, DdIf, ForkBomb}

HasDenied(c) == \E p \in DenyList : Occurs(p, ToLowercase(c))

\* Unicode general category Cc: U+0000-U+001F and U+007F-U+009F
IsCc(c) == c <= 31 \/ (c >= 127 /\ c <= 159)

HasCc(c) == \E i \in 1..Len(c) : IsCc(c[i])

C4_DenyListDecides ==
    (unit.fn = "is_safe" /\ unit.done) =>
        /\ HasDenied(unit.arg) => unit.ret = FALSE
        /\ (~HasDenied(unit.arg) /\ ~HasCc(unit.arg)) => unit.ret = TRUE

\* an upper-case spelling of a pattern was rejected, and a clean command accepted
C4_Witness ==
    /\ unit.fn = "is_safe" /\ unit.done
    /\ HasDenied(unit.arg)
    /\ \A p \in DenyList : ~Occurs(p, unit.arg)
    /\ unit.ret = FALSE

(* C5: is_safe is false for every command that contains a control character
   (Unicode category Cc) other than tab and newline, wherever it occurs. *)
C5_ControlCharsRejected ==
    (unit.fn = "is_safe" /\ unit.done) =>
        ((\E i \in 1..Len(unit.arg) :
             IsCc(unit.arg[i]) /\ unit.arg[i] # 9 /\ unit.arg[i] # 10)
         => unit.ret = FALSE)

(* C7: parse_router_response is total: for every response it returns a
   ContextNeeds and never panics, and it returns the default whenever neither
   the whole text nor the span from the first '{' to the last '}' parses. *)
SpanParses(r) ==
    LET c == TrimToks(r)
        lbs == {i \in 1..Len(c) : c[i].t = "lb"}
        rbs == {i \in 1..Len(c) : c[i].t = "rb"}
    IN  /\ lbs # {} /\ rbs # {}
        /\ LET first == CHOOSE i \in lbs : \A j \in lbs : i <= j
               last == CHOOSE i \in rbs : \A j \in rbs : j <= i
           IN  first <= last /\ FromStr(SubSeq(c, first, last)).ok

C7_ParseTotal ==
    (unit.fn = "parse_router_response" /\ unit.done) =>
        /\ ~unit.ret.panic
        /\ (~FromStr(unit.arg).ok /\ ~SpanParses(unit.arg)) => unit.ret.needs = DefaultNeeds

----------------------------------------------------------------------------
(* C1: in every mode a sanitized command that is empty or that is_safe
   refuses is never written to standard output as the result, never copied
   and never passed to `sh -c`, and the process exits with 2; what reaches the
   shell is exactly the sanitized command, which passed is_safe. *)
Printed(kind) == {i \in 1..Len(stdout) : stdout[i].kind = kind}

Refused(c) == c = << >> \/ HasDenied(c) \/ (\E i \in 1..Len(c) : c[i] < 32 /\ c[i] \notin {9, 10})

C1_RejectedNeverLeaves ==
    /\ (sanitized /\ Refused(command)) =>
            /\ Printed("command") = {} /\ Printed("running") = {}
            /\ clipboard = << >> /\ shell = << >>
            /\ exit_code = 2
    /\ \A i \in 1..Len(shell) :
            sanitized /\ shell[i] = command /\ command = clean_command(raw) /\ ~Refused(command)
    /\ \A i \in 1..Len(clipboard) :
            sanitized /\ clipboard[i] = command /\ ~Refused(command)
    /\ \A i \in Printed("command") :
            sanitized /\ stdout[i].text = command /\ ~Refused(command)

\* under -y the model's answer cleaned to "rm -rf /": nothing left, exit 2
C1_Witness ==
    /\ pc = "done" /\ auto_confirm /\ sanitized
    /\ command = RmRfRoot
    /\ exit_code = 2 /\ shell = << >> /\ clipboard = << >>

(* C2: with a terminal, no fragment of the generated text is displayed
   before the command derived from it has been sanitized and has passed
   is_safe. *)
C2_NothingShownBeforeGate ==
    Printed("token") # {} => (sanitized /\ ~Refused(command))

(* C3: without -y the command reaches the shell only after the user has
   confirmed at the prompt; a non-empty answer, and no answer at all
   (end-of-file, standard input already consumed), leave it unexecuted. *)
C3_RunOnlyAfterConfirm ==
    (~auto_confirm /\ shell # << >>) => (input # << >> /\ Trim(input) = << >>)

(* C6: the exit code is 0 when a command was printed or executed, 1 when no
   intent was given, 2 when the sanitized command is empty or unsafe, 3 when
   the generation call failed. *)
IsFlag(a) == a # << >> /\ a[1] = 45

NoIntentGiven(a) ==
    /\ \A i \in 1..Len(a) : IsFlag(a[i])
    /\ \A i \in 1..Len(a) : a[i] \notin (HelpFlags \cup VersionFlags)

C6_ExitCodes ==
    /\ pc = "done" =>
        /\ (Printed("command") # {} \/ shell # << >>) => exit_code = 0
        /\ (sanitized /\ Refused(command)) => exit_code = 2
        /\ generation_result = "err" => exit_code = 3
    /\ (pc = "done" /\ exit_code = 1) => (requests = << >> /\ ~sanitized)
    /\ (pc = "done" /\ exit_code = 2) => (sanitized /\ generation_result = "ok")
    /\ (pc = "done" /\ exit_code = 3) => (generation_result = "err" /\ ~sanitized)

C6_UsageExit ==
    [][(pc = "args" /\ NoIntentGiven(args)) => (pc' = "done" /\ exit_code' = 1)]_vars

C6_EachOutcomeItsCode == []C6_ExitCodes /\ C6_UsageExit

\* the stream broke after a token had been shown: the call failed, exit 3
C6_Witness ==
    /\ pc = "done" /\ generation_result = "err" /\ exit_code = 3
    /\ stdout # << >>

(* C8 as stated: for an intent that is about creating a commit and every
   router result that did not request both git_diff and git_status, the
   ContextNeeds used after routing has git_diff, git_status and git_log. *)
Routed == pc \in {"gather", "gather_wait", "prompt"} /\ router.state \in {"answered", "failed", "join_failed"}

AboutCommit(text) ==
    /\ Occurs(CommitWord, ToLowercase(text))
    /\ \A w \in ViewingWords : ~Occurs(w, ToLowercase(text))

C8_OverrideUnlessBoth ==
    (Routed /\ AboutCommit(intent) /\ ~(router.result.git_diff /\ router.result.git_status))
        => (needs.git_diff /\ needs.git_status /\ needs.git_log)

(* C8 amended: for such an intent and every router result that requested
   neither git_diff nor git_status, the ContextNeeds used after routing has
   all three; it is the router result with those three flags set. *)
C8_OverrideWhenNeither ==
    (Routed /\ AboutCommit(intent) /\ ~router.result.git_diff /\ ~router.result.git_status)
        => /\ needs.git_diff /\ needs.git_status /\ needs.git_log
           /\ needs = [router.result EXCEPT !.git_diff = TRUE, !.git_status = TRUE,
                                            !.git_log = TRUE]

\* "Commit" was asked and the router had asked for staged diff and branch only
C8_Witness ==
    /\ Routed /\ pc = "gather"
    /\ AboutCommit(intent) /\ ~Occurs(CommitWord, intent)
    /\ router.state = "answered"
    /\ router.result.git_diff_staged /\ ~router.result.git_diff /\ ~router.result.git_status
    /\ needs.git_diff /\ needs.git_status /\ needs.git_log /\ needs.git_branch

(* C9: whatever the router call does (transport error, time-out, failure of
   the spawned task, a response that cannot be parsed) routing yields the
   default ContextNeeds subject to the commit override, the final generation
   request is still sent, and the failure is never an error or a crash. *)
Unparsable(r) == ~FromStr(TrimToks(r)).ok /\ ~SpanParses(r)

RouterFailed ==
    router.state \in {"failed", "join_failed", "panicked"}
    \/ (router.state = "answered" /\ router.response # << >> /\ Unparsable(router.response))

C9_RouterFailureRecovered ==
    /\ router.state # "panicked"
    /\ (RouterFailed /\ pc \in {"gather", "gather_wait", "prompt"}) =>
            needs = IF AboutCommit(intent)
                    THEN [DefaultNeeds EXCEPT !.git_diff = TRUE, !.git_status = TRUE,
                                              !.git_log = TRUE]
                    ELSE DefaultNeeds
    /\ (RouterFailed /\ pc = "done") =>
            (\E i \in 1..Len(requests) : requests[i].phase = "generate")

(* C10 as stated: the sections gather_context returns are the file tree,
   then the git sections in the declaration order of the flags (git_diff,
   git_diff_staged, git_status, git_log, git_branch), then the files in
   read_files order. *)
RECURSIVE IsSubseq(_, _)
IsSubseq(a, b) ==
    IF a = << >> THEN TRUE
    ELSE IF b = << >> THEN FALSE
    ELSE IF Head(a) = Head(b) THEN IsSubseq(Tail(a), Tail(b))
    ELSE IsSubseq(a, Tail(b))

InOrder(kinds) ==
    LET got == [i \in 1..Len(extra_context) |-> extra_context[i].kind]
        files == SelectSeq(extra_context, LAMBDA x : x.kind = "file")
    IN  /\ IsSubseq(got, kinds \o [i \in 1..Len(needs.read_files) |-> "file"])
        /\ IsSubseq([i \in 1..Len(files) |-> files[i].path], needs.read_files)

C10_DeclarationOrder ==
    pc = "prompt" => InOrder(<<"tree", "diff", "staged", "status", "log", "branch">>)

(* C10 amended: the sections are the file tree, then the git sections in the
   order status, diff, staged diff, log, branch, then the files in read_files
   order. *)
C10_PushOrder ==
    pc = "prompt" => InOrder(<<"tree", "status", "diff", "staged", "log", "branch">>)

\* status and diff both gave a section, and so did two files
C10_Witness ==
    /\ pc = "prompt"
    /\ \E i, j \in 1..Len(extra_context) :
        i < j /\ extra_context[i].kind = "status" /\ extra_context[j].kind = "diff"
    /\ \E i, j \in 1..Len(extra_context) :
        /\ i < j
        /\ extra_context[i].kind = "file" /\ extra_context[i].path = FileB
        /\ extra_context[j].kind = "file" /\ extra_context[j].path = FileA

(* C11: gather_context joins only after every dispatched task has finished,
   and the sections are in task order whatever order the tasks finished in:
   the block is the kept results read off the task list from first to last. *)
RECURSIVE KeptInTaskOrder(_)
KeptInTaskOrder(ts) ==
    IF ts = << >> THEN << >>
    ELSE (IF Head(ts).res.some THEN <<Head(ts).res.sec>> ELSE << >>)
         \o KeptInTaskOrder(Tail(ts))

TaskKinds(ts) == [i \in 1..Len(ts) |-> <<ts[i].kind, ts[i].path>>]

C11_Joined ==
    /\ pc = "gather_wait" => extra_context = << >>
    /\ pc = "prompt" =>
        /\ \A i \in 1..Len(tasks) : tasks[i].done
        /\ extra_context = KeptInTaskOrder(tasks)

C11_NoEarlyJoin ==
    [][pc = "gather_wait" =>
            /\ TaskKinds(tasks') = TaskKinds(tasks)
            /\ \A i \in 1..Len(tasks) : tasks[i].done => tasks'[i] = tasks[i]
            /\ pc' # "gather_wait" => \A i \in 1..Len(tasks) : tasks[i].done]_vars

C11_JoinAfterAllInTaskOrder == []C11_Joined /\ C11_NoEarlyJoin

\* three tasks were joined: the first and the last gave a section, the one
\* between them gave none
C11_Witness ==
    /\ pc = "prompt"
    /\ Len(tasks) = 3
    /\ tasks[1].res.some /\ ~tasks[2].res.some /\ tasks[3].res.some
    /\ Len(extra_context) = 2

(* C12: a collector that fails, or whose output is empty (empty command
   output, empty file), contributes no section; the other sections are still
   returned. *)
C12_EmptyContributesNothing ==
    pc = "prompt" => \A i \in 1..Len(extra_context) : extra_context[i].content # << >>

(* C13: gather_context returns the empty block for every ContextNeeds whose
   six flags are false and whose read_files is empty, in a git repository or
   not. *)
NothingAsked(n) ==
    /\ ~n.git_diff /\ ~n.git_diff_staged /\ ~n.git_status
    /\ ~n.git_log /\ ~n.git_branch /\ ~n.file_tree
    /\ n.read_files = << >>

C13_NothingAskedNothingGathered ==
    (NothingAsked(needs) /\ pc \in {"gather_wait", "prompt"}) =>
        (tasks = << >> /\ extra_context = << >>)

\* nothing was asked, inside a git repository, and the join has happened
C13_Witness ==
    /\ pc = "prompt" /\ NothingAsked(needs) /\ is_git_repo
    /\ extra_context = << >>

(* C14: the context phase always completes, also when an external process
   or the router backend never responds: the call times out, gives no
   result, and the pipeline goes on to the generation call (a run that the
   router response crashed is left aside here). *)
GenerationSent == \E i \in 1..Len(requests) : requests[i].phase = "generate"

C14_ContextPhaseCompletes ==
    (pc \in {"route_wait", "gather_wait"}) ~> (GenerationSent \/ router.state = "panicked")

(* C15: for every readable file the section is the label line
   "=== <path> ===" followed by exactly the first min(length, 16000)
   characters of the file, counted in characters; the content never exceeds
   16000 characters. *)
FirstChars(text, n) == [i \in 1..(IF Len(text) < n THEN Len(text) ELSE n) |-> text[i]]

C15_FileHead ==
    (unit.fn = "read_file_head" /\ unit.done /\ unit.arg.o.ok) =>
        /\ unit.ret.some
        /\ unit.ret.text = <<61, 61, 61, 32>> \o unit.arg.path \o <<32, 61, 61, 61, 10>>
                           \o FirstChars(unit.arg.o.out, 16000)
        /\ Len(unit.ret.sec.content) <= 16000

\* a file of more than 16000 three-byte characters was cut to 16000 of them
C15_Witness ==
    /\ unit.fn = "read_file_head" /\ unit.done /\ unit.arg.o.ok
    /\ Len(unit.arg.o.out) > 16000
    /\ unit.arg.o.out[1] = 8364
    /\ Len(unit.ret.sec.content) = 16000

(* C16: every section (file tree, status, both diffs, log, branches, each
   file) has content bounded by a fixed budget, whatever the size of the raw
   output: here, by the largest budget any collector has. *)
C16_EverySectionBounded ==
    (unit.fn \in {"read_file_head", "collector"} /\ unit.done /\ unit.ret.some) =>
        Len(unit.ret.sec.content) <= 16000

(* C17: the prompt compiler selects the commit template exactly when the
   intent is about creating a commit and the extra context is not empty, a
   generic template in every other case; its test answers as the override's
   test does on every intent. *)
C17_TemplateSelection ==
    /\ (unit.fn = "build_prompt_with_context" /\ unit.done) =>
        /\ unit.ret \in {"commit", "generic", "generic_with_context"}
        /\ unit.ret = "commit" <=> (AboutCommit(unit.arg.intent) /\ unit.arg.context # << >>)
    /\ (unit.fn = "is_creating_commit" /\ unit.done) =>
        (unit.ret <=> AboutCommit(unit.arg.intent))

\* "commit history" with context: the generic template, as the override says
C17_Witness ==
    /\ unit.fn = "build_prompt_with_context" /\ unit.done
    /\ unit.arg.intent = CommitWord \o <<32, 104, 105, 115, 116, 111, 114, 121>>
    /\ unit.arg.context # << >>
    /\ unit.ret = "generic_with_context"

(* C18 as stated: the text the interactive consumer returns is the
   concatenation, in order, of exactly the fragments that arrive outside
   reasoning mode and contain no marker. *)
RECURSIVE OutsideReasoning(_, _)
OutsideReasoning(frags, reasoning) ==
    IF frags = << >> THEN << >>
    ELSE LET f == Head(frags) IN
         IF Occurs(ThinkOpen, f) THEN OutsideReasoning(Tail(frags), TRUE)
         ELSE IF Occurs(ThinkClose, f) THEN OutsideReasoning(Tail(frags), FALSE)
         ELSE IF reasoning THEN OutsideReasoning(Tail(frags), reasoning)
         ELSE <<f>> \o OutsideReasoning(Tail(frags), reasoning)

RECURSIVE Concat(_)
Concat(frags) == IF frags = << >> THEN << >> ELSE Head(frags) \o Concat(Tail(frags))

Blank(f) == \A i \in 1..Len(f) : f[i] \in {9, 10, 11, 12, 13, 32}

ConsumerReturned == unit.fn = "on_token" /\ pc = "clean"

C18_AllOutsideReasoning ==
    ConsumerReturned => raw = Concat(OutsideReasoning(unit.arg, FALSE))

(* C18 amended: it is the concatenation, in order, of exactly the fragments
   that arrive outside reasoning mode, contain no marker, and are not
   whitespace-only fragments arriving before the first fragment shown. *)
RECURSIVE DropLeadingBlank(_)
DropLeadingBlank(frags) ==
    IF frags = << >> THEN << >>
    ELSE IF Blank(Head(frags)) THEN DropLeadingBlank(Tail(frags))
    ELSE frags

C18_OutsideReasoningAfterLeadingBlanks ==
    ConsumerReturned => raw = Concat(DropLeadingBlank(OutsideReasoning(unit.arg, FALSE)))

\* the spec's example, with the answer alone returned
C18_Witness ==
    /\ ConsumerReturned
    /\ unit.arg = <<ThinkOpen, ReasoningText, ThinkClose, RealAnswer>>
    /\ raw = RealAnswer

(* C20: the first-visible-token flag is set once and never reset; while the
   stream is consumed it is set exactly when a fragment that is non-empty
   after trimming has arrived outside reasoning mode, never earlier. *)
Consumed == SubSeq(unit.arg, 1, Len(unit.arg) - Len(wire.items) - Len(chunk))

C20_SetByFirstVisible ==
    (unit.fn = "on_token" /\ pc = "stream") =>
        (got_first_token <=>
            \E i \in 1..Len(OutsideReasoning(Consumed, FALSE)) :
                ~Blank(OutsideReasoning(Consumed, FALSE)[i]))

C20_NeverReset == [][got_first_token => got_first_token']_vars

C20_FirstTokenOnce == []C20_SetByFirstVisible /\ C20_NeverReset

\* a blank fragment and a whole think block went by without the flag, which
\* the answer then set
C20_Witness ==
    /\ unit.fn = "on_token" /\ pc = "stream"
    /\ unit.arg = <<<<32>>, ThinkOpen, ThinkClose, RealAnswer>>
    /\ Consumed = unit.arg
    /\ got_first_token

(* C19: in every mode (interactive, no terminal, --quick) the text handed to
   clean_command holds no part of a reasoning span: neither marker, and so
   nothing from between them, is in it. *)
C19_NoReasoningReachesSanitizer ==
    (pc = "clean" \/ sanitized) => (~Occurs(ThinkOpen, raw) /\ ~Occurs(ThinkClose, raw))

----------------------------------------------------------------------------
(* SpecFrames: generate_ollama_streaming fed one byte stream of lines, cut
   into network chunks at any line boundary, with and without a terminal *)
MaxLines == 3

DashL == <<32, 45, 108>>                                    \* " -l"
Dot == <<46>>                                               \* "."

\* the lines a backend can put on the stream: two frames that go on, one
\* that says done, a line that is no frame, an empty line
FrameLines == {Frame(Ls, FALSE), Frame(DashL, FALSE), Frame(Dot, TRUE), BadLine, EmptyLine}

RECURSIVE ChunksOf(_, _)
\* the lines as the chunks the network delivers: a chunk ends after each
\* position in cuts and after the last line
ChunksOf(lines, cuts) ==
    IF lines = << >> THEN << >>
    ELSE LET n == IF cuts = {} THEN Len(lines)
                  ELSE CHOOSE c \in cuts : \A d \in cuts : c <= d
         IN  <<Chunk(SubSeq(lines, 1, n))>>
             \o ChunksOf(SubSeq(lines, n + 1, Len(lines)), {c - n : c \in cuts \ {n}})

InitFrames ==
    /\ \E lines \in SeqsUpTo(FrameLines, MaxLines) :
       \E cuts \in SUBSET (1..(Len(lines) - 1)) :
        /\ unit = [fn |-> "generate_ollama_streaming", arg |-> lines, ret |-> FALSE,
                   done |-> TRUE]
        /\ wire = [connect |-> TRUE, items |-> ChunksOf(lines, cuts)]
    /\ pc = "stream"
    /\ args = << >>
    /\ is_tty \in BOOLEAN
    /\ stdin = [tty |-> TRUE, data |-> << >>, reads |-> 0]
    /\ router_enabled = TRUE
    /\ quick_mode = FALSE
    /\ auto_confirm = FALSE
    /\ intent = << >>
    /\ needs = DefaultNeeds
    /\ FreshRoute
    /\ prompt = GenericPrompt
    /\ requests = <<Request("generate", "none")>>
    /\ chunk = << >>
    /\ full_response = << >>
    /\ result = << >>
    /\ in_think_block = FALSE
    /\ first_visible_token = TRUE
    /\ got_first_token = FALSE
    /\ spinner = IF is_tty THEN "running" ELSE "idle"
    /\ generation_result = "pending"
    /\ FreshOut

NextFrames ==
    RecvItem \/ ProcessLine \/ StreamEnd \/ StopSpinner \/ SpinnerPoll \/ SpinnerDraw
    \/ GenDone

SpecFrames == InitFrames /\ [][NextFrames]_vars

\* the call on the stream unit.arg has returned
GeneratorReturned == unit.fn = "generate_ollama_streaming" /\ pc \in {"gen_done", "clean"}

\* the response fields of the frames among the lines, in order
Responses(lines) ==
    LET frames == SelectSeq(lines, LAMBDA l : l.kind = "frame")
    IN  Concat([i \in 1..Len(frames) |-> frames[i].response])

\* the lines up to and including the first frame that says done
UpToDone(lines) ==
    LET dones == {i \in 1..Len(lines) : lines[i].done}
    IN  IF dones = {} THEN lines
        ELSE SubSeq(lines, 1, CHOOSE i \in dones : \A j \in dones : i <= j)

\* the tokens the callback has shown
Shown == Concat([i \in 1..Len(stdout) |-> stdout[i].text])

(* C21: once a frame with done=true has been consumed the generator is
   finished: the final text, and what the token callback was given, is made
   of the frames up to and including that frame, and no frame after it, in
   the same chunk or a later one, is added. *)
C21_NothingAfterDone ==
    GeneratorReturned =>
        /\ full_response = Responses(UpToDone(unit.arg))
        /\ Interactive => Shown = Responses(UpToDone(unit.arg))

\* no line that is a frame comes before the first line that is no frame
MalformedFirst(lines) ==
    \E i \in 1..Len(lines) :
        /\ lines[i].kind = "bad"
        /\ \A j \in 1..(i - 1) : lines[j].kind # "frame"

(* C22: a malformed frame that no valid frame preceded fails the call: the
   generator does not return successfully. *)
C22_MalformedFirstFails ==
    (GeneratorReturned /\ MalformedFirst(unit.arg)) => generation_result = "err"

\* a line that is no frame comes after a frame
MalformedLater(lines) ==
    \E i \in 1..Len(lines) :
        /\ lines[i].kind = "bad"
        /\ \E j \in 1..(i - 1) : lines[j].kind = "frame"

\* no line follows a frame that says done
DoneOnlyLast(lines) == \A i \in 1..(Len(lines) - 1) : ~lines[i].done

(* C23: on a stream that does not go on after a done frame, a malformed line
   after a valid frame is skipped: the call succeeds and the final text is
   the concatenation, in order, of the response fields of all the frames
   before and after it; and a stream that closes without any done frame
   returns what was accumulated as a success. *)
C23_MalformedLaterSkipped ==
    (GeneratorReturned /\ DoneOnlyLast(unit.arg)
        /\ (MalformedLater(unit.arg) \/ \A i \in 1..Len(unit.arg) : ~unit.arg[i].done)) =>
        /\ generation_result = "ok"
        /\ full_response = Responses(unit.arg)

\* frames on both sides of a skipped line, and the connection closed
\* without a done frame, with the text handed on
C23_Witness ==
    /\ unit.fn = "generate_ollama_streaming"
    /\ pc = "clean"
    /\ unit.arg = <<Frame(Ls, FALSE), BadLine, Frame(DashL, FALSE)>>
    /\ raw = Ls \o DashL

----------------------------------------------------------------------------
(* SpecClean: clean_command applied to one text, and then to its own
   result *)
MaxPieces == 4

Tick == <<96>>
GitStatus == <<103, 105, 116, 32, 115, 116, 97, 116, 117, 115>>    \* "git status"
Note == <<78, 111, 116, 101, 58>>                                  \* "Note:"
Bash == <<98, 97, 115, 104>>                                       \* "bash"

\* what a reply is made of: a fence, a backtick, a line feed, a carriage
\* return, a blank, a command, a command of a known tool, prose
Pieces == {Fence, Tick, <<10>>, <<13>>, <<32>>, Ls, GitStatus, Note}

\* replies with a fenced block, as the tests at lines 1344-1361 have them:
\* prose, fence with and without a language tag, the command, fence, prose;
\* and a block written on one line
FencedTexts == {
    Note \o <<10>> \o Fence \o Bash \o <<10>> \o Ls \o <<10>> \o Fence,
    Note \o <<10>> \o Fence \o <<10>> \o Ls \o <<10>> \o Fence \o <<10>> \o Note,
    Note \o <<32>> \o Fence \o Ls \o Fence \o <<10>> \o Note,
    Fence \o Bash \o <<13, 10>> \o GitStatus \o <<13, 10>> \o Fence \o <<13, 10>>
}

CleanInputs == {Concat(ps) : ps \in SeqsUpTo(Pieces, MaxPieces)} \cup FencedTexts

NotCalled == [ret |-> << >>, done |-> FALSE]

InitClean ==
    /\ Idle
    /\ unit \in {[fn |-> "clean_command", arg |-> x, ret |-> << >>, done |-> FALSE,
                  again |-> NotCalled] : x \in CleanInputs}

CallCleanCommand ==
    /\ unit.fn = "clean_command"
    /\ ~unit.done
    /\ unit' = [unit EXCEPT !.ret = clean_command(unit.arg), !.done = TRUE]
    /\ UNCHANGED pipeVars

\* clean_command applied to what it returned
CallCleanCommandAgain ==
    /\ unit.fn = "clean_command"
    /\ unit.done
    /\ ~unit.again.done
    /\ unit' = [unit EXCEPT !.again = [ret |-> clean_command(unit.ret), done |-> TRUE]]
    /\ UNCHANGED pipeVars

NextClean == CallCleanCommand \/ CallCleanCommandAgain

SpecClean == InitClean /\ [][NextClean]_vars

Cleaned == unit.fn = "clean_command" /\ unit.done

\* the lines of a text that are not blank, trimmed
NonEmptyLines(text) ==
    LET ls == Lines(text)
        kept == SelectSeq(ls, LAMBDA l : Trim(l) # << >>)
    IN  [i \in 1..Len(kept) |-> Trim(kept[i])]

StartsWith(s, p) == StartsWithAt(s, p, 1)

\* "git", "find", "docker", "cargo", "python", "/"
CommandPrefixes == {
    <<103, 105, 116>>, <<102, 105, 110, 100>>, <<100, 111, 99, 107, 101, 114>>,
    <<99, 97, 114, 103, 111>>, <<112, 121, 116, 104, 111, 110>>, <<47>>
}

\* "the", "this", "note", "*", "#"
ProsePrefixes == {
    <<116, 104, 101>>, <<116, 104, 105, 115>>, <<110, 111, 116, 101>>, <<42>>, <<35>>
}

LooksLikeCommand(l) == \E p \in CommandPrefixes : StartsWith(l, p)
LooksLikeProse(l) == \E p \in ProsePrefixes : StartsWith(ToLowercase(l), p)

\* the line the priority rule picks among non-empty lines ls
ByPriority(ls) ==
    LET cmds == SelectSeq(ls, LooksLikeCommand)
        plain == SelectSeq(ls, LAMBDA l : ~LooksLikeProse(l))
    IN  IF cmds # << >> THEN cmds[1]
        ELSE IF plain # << >> THEN plain[1]
        ELSE ls[1]

(* C24: when the text has several non-empty lines (and no backticks), the
   line returned is chosen by priority: the first line that begins with a
   recognised command-name prefix, else the first that does not begin with a
   prose prefix, else the first non-empty line. *)
C24_PrioritySelection ==
    (Cleaned /\ ~Contains(unit.arg, Tick) /\ Len(NonEmptyLines(unit.arg)) >= 2) =>
        unit.ret = RemoveChar(ByPriority(NonEmptyLines(unit.arg)), 13)

\* the text has a pair of fences
HasFencedBlock(text) ==
    /\ Contains(text, Fence)
    /\ Contains(From(text, Find(text, Fence) + 3), Fence)

\* what stands between the first pair of fences
Between(text) ==
    LET rest == From(text, Find(text, Fence) + 3)
    IN  SubSeq(rest, 1, Find(rest, Fence) - 1)

(* C25: for a text with a fenced code block, the result is a line of what
   stands between the first pair of fences (trimmed, without backticks and
   carriage returns), or empty when nothing is there: nothing of the prose
   before or after the block is in it. *)
C25_OnlyFromFencedBlock ==
    (Cleaned /\ HasFencedBlock(unit.arg)) =>
        \/ unit.ret = << >>
        \/ \E i \in 1..Len(Lines(Between(unit.arg))) :
            unit.ret = RemoveChar(Trim(RemoveChar(Lines(Between(unit.arg))[i], 96)), 13)

(* C26: clean_command returns on every text, and what it returns is at most
   one line: no line feed, no carriage return and no backtick is in it, and
   it has no whitespace at either end. *)
C26_OneCleanLine ==
    Cleaned =>
        /\ ~Contains(unit.ret, <<10>>)
        /\ ~Contains(unit.ret, <<13>>)
        /\ ~Contains(unit.ret, Tick)
        /\ Trim(unit.ret) = unit.ret

\* a text whose only line holds a carriage return inside and a blank in front
\* gave "lsls"
C26_Witness ==
    /\ Cleaned
    /\ unit.arg = <<32>> \o Ls \o <<13>> \o Ls
    /\ unit.ret = Ls \o Ls

\* a single trimmed line without backticks and carriage returns
IsCleanLine(text) ==
    /\ ~Contains(text, <<10>>)
    /\ ~Contains(text, <<13>>)
    /\ ~Contains(text, Tick)
    /\ Trim(text) = text

(* C27: clean_command applied to its own result gives that result again,
   and a text that is already a single trimmed line without backticks and
   carriage returns is returned as it is. *)
C27_Idempotent ==
    /\ (Cleaned /\ unit.again.done) => unit.again.ret = unit.ret
    /\ (Cleaned /\ IsCleanLine(unit.arg)) => unit.ret = unit.arg

\* a reply with prose and a fenced block was cleaned twice
C27_Witness ==
    /\ Cleaned
    /\ unit.again.done
    /\ unit.arg = Note \o <<10>> \o Fence \o Bash \o <<10>> \o Ls \o <<10>> \o Fence
    /\ unit.ret = Ls
    /\ unit.again.ret = Ls

----------------------------------------------------------------------------
\* a print-only invocation that got as far as asking the model
PrintOnlyRun == (quick_mode \/ ~is_tty) /\ ~auto_confirm /\ requests # << >>

(* C28: in --quick mode, or when standard output is no terminal, and without
   -y, standard output holds nothing until the run ends well, and then
   exactly one write: the sanitized command and one line feed; no token,
   prompt, diagnostic or progress text is ever on it. *)
C28_OnlyTheCommandOnStdout ==
    PrintOnlyRun =>
        IF pc = "done" /\ exit_code = 0
        THEN /\ sanitized
             /\ Len(stdout) = 1
             /\ stdout[1].kind = "command"
             /\ Println(stdout[1].text) = command \o <<10>>
        ELSE stdout = << >>

\* a run into a pipe, without --quick, has printed "ls"
C28_Witness ==
    /\ pc = "done"
    /\ ~quick_mode /\ ~is_tty /\ ~auto_confirm
    /\ command = Ls
    /\ stdout = <<Written("command", Ls)>>

(* C29: with -y, in every mode, a sanitized command that is not empty and
   passes is_safe is handed to the shell exactly once by the end of the run,
   and the run prompt is never shown nor an answer read. *)
C29_YesRunsOnce ==
    auto_confirm =>
        /\ pc # "ask"
        /\ Printed("ask") = {}
        /\ input = << >>
        /\ (pc = "done" /\ sanitized /\ command # << >> /\ is_safe(command)) =>
                shell = <<command>>
        /\ Len(shell) <= 1

\* -y with --quick into a pipe: "ls" was run, not printed
C29_Witness ==
    /\ pc = "done"
    /\ auto_confirm /\ quick_mode /\ ~is_tty
    /\ shell = <<Ls>>
    /\ Printed("command") = {}

----------------------------------------------------------------------------
(* SpecSpinner: the generation phase of an interactive invocation, from the
   spawn of the spinner task to the text handed to main. The runtime runs
   every task that is ready, and the HTTP client gives up after 300 seconds
   (line 281), so the steps of the generation call and of the spinner task
   are taken when they can be. *)
InitSpinner ==
    /\ unit = NoUnit
    /\ pc = "send"
    /\ args = << >>
    /\ is_tty = TRUE
    /\ stdin \in StdinChoices
    /\ router_enabled \in BOOLEAN
    /\ quick_mode = FALSE
    /\ auto_confirm \in BOOLEAN
    /\ intent = << >>
    /\ needs = DefaultNeeds
    /\ FreshRoute
    /\ prompt \in {GenericPrompt, [template |-> "commit", context |-> TRUE]}
    /\ requests = << >>
    /\ wire = [connect |-> FALSE, items |-> << >>]
    /\ chunk = << >>
    /\ full_response = << >>
    /\ result = << >>
    /\ in_think_block = FALSE
    /\ first_visible_token = TRUE
    /\ got_first_token = FALSE
    /\ spinner = "idle"
    /\ generation_result = "pending"
    /\ FreshOut

Generation == GenSend \/ RecvItem \/ ProcessLine \/ StreamEnd \/ StopSpinner \/ GenDone

SpinnerTask == SpinnerPoll \/ SpinnerDraw

NextSpinner == Generation \/ SpinnerTask

SpecSpinner ==
    InitSpinner /\ [][NextSpinner]_vars /\ WF_vars(Generation) /\ WF_vars(SpinnerTask)

(* C30: the spinner task, once spawned, always ends, on every path (a
   visible token arrives, the stream ends without one, the call fails), and
   the coordinating flow that awaits it always gets past the await. *)
C30_SpinnerTerminates ==
    /\ (spinner = "running") ~> (spinner = "stopped")
    /\ (pc = "join") ~> (pc \in {"clean", "done"})

\* the call failed before any token was shown, and the awaited spinner task
\* has ended
C30_Witness ==
    /\ spinner = "stopped"
    /\ generation_result = "err"
    /\ first_visible_token
    /\ pc = "done"

----------------------------------------------------------------------------
\* the requests of one phase that were sent
Sent(phase) == {i \in 1..Len(requests) : requests[i].phase = phase}

(* C31: nothing is tried again: an invocation sends at most one router
   request and at most one generation request, and when the generation
   request has failed no command is printed as the result, copied or
   executed, and the invocation ends with the generation-failure code 3. *)
C31_NoRetry ==
    /\ Cardinality(Sent("router")) <= 1
    /\ Cardinality(Sent("generate")) <= 1
    /\ generation_result = "err" =>
        /\ Printed("command") = {} /\ Printed("running") = {}
        /\ clipboard = << >>
        /\ shell = << >>
        /\ ~sanitized
        /\ pc = "done" => exit_code = 3

\* the backend answered the router but could not be reached for the
\* generation: both requests were sent once, exit 3
C31_Witness ==
    /\ pc = "done"
    /\ exit_code = 3
    /\ Cardinality(Sent("router")) = 1
    /\ Cardinality(Sent("generate")) = 1
    /\ full_response = << >>

(* C32: standard input is read at most once in an invocation: after the one
   read that consumes piped input, no later step reads it again. *)
C32_StdinReadAtMostOnce == stdin.reads <= 1

\* the place of the first -h/--help or -v/--version among the arguments, 0
\* when there is none
FirstStop(a) ==
    LET stops == {i \in 1..Len(a) : a[i] \in HelpFlags \cup VersionFlags}
    IN  IF stops = {} THEN 0 ELSE CHOOSE i \in stops : \A j \in stops : i <= j

(* C33: when -h/--help or -v/--version stands anywhere among the arguments,
   the first of them in argument order decides: usage goes to standard error
   or the version to standard output, the exit code is 0 and no backend is
   contacted; when there is no such flag and no argument that is not a flag,
   usage goes to standard error and the exit code is 1. *)
C33_HelpVersionUsage ==
    [][pc = "args" =>
        IF FirstStop(args) # 0 THEN
            /\ pc' = "done" /\ exit_code' = 0 /\ requests' = << >>
            /\ args[FirstStop(args)] \in HelpFlags =>
                    (stderr' = <<Written("usage", << >>)>> /\ stdout' = << >>)
            /\ args[FirstStop(args)] \in VersionFlags =>
                    (stdout' = <<Written("version", << >>)>> /\ stderr' = << >>)
        ELSE (\A i \in 1..Len(args) : IsFlag(args[i])) =>
            /\ pc' = "done" /\ exit_code' = 1 /\ requests' = << >>
            /\ stderr' = <<Written("usage", << >>)>> /\ stdout' = << >>]_vars

\* an intent, then -v, then -h: the version was printed
C33_Witness ==
    /\ pc = "done"
    /\ exit_code = 0
    /\ Len(args) = 3
    /\ ~IsFlag(args[1]) /\ args[2] \in VersionFlags /\ args[3] \in HelpFlags
    /\ stdout = <<Written("version", << >>)>>
    /\ stderr = << >>

----------------------------------------------------------------------------
(* SpecThink: the interactive stream consumer fed fragments of a reasoning
   model that puts both markers into one fragment *)

\* "<think>plan</think>"
ThinkPlan == ThinkOpen \o <<112, 108, 97, 110>> \o ThinkClose

ThinkFragments == {ThinkPlan, ThinkOpen, ThinkClose, RealAnswer}

InitThink ==
    /\ \E frags \in SeqsUpTo(ThinkFragments, MaxFrags) :
        /\ unit = [fn |-> "on_token", arg |-> frags, ret |-> FALSE, done |-> TRUE]
        /\ wire = WireOf(frags)
    /\ pc = "stream"
    /\ args = << >>
    /\ is_tty = TRUE
    /\ stdin = [tty |-> TRUE, data |-> << >>, reads |-> 0]
    /\ router_enabled = TRUE
    /\ quick_mode = FALSE
    /\ auto_confirm = FALSE
    /\ intent = << >>
    /\ needs = DefaultNeeds
    /\ FreshRoute
    /\ prompt = GenericPrompt
    /\ requests = <<Request("generate", "none")>>
    /\ chunk = << >>
    /\ full_response = << >>
    /\ result = << >>
    /\ in_think_block = FALSE
    /\ first_visible_token = TRUE
    /\ got_first_token = FALSE
    /\ spinner = "running"
    /\ generation_result = "pending"
    /\ FreshOut

NextThink == RecvItem \/ ProcessLine \/ StreamEnd \/ StopSpinner \/ SpinnerPoll \/ SpinnerDraw
    \/ GenDone

SpecThink == InitThink /\ [][NextThink]_vars

(* C34: when the fragment the stream consumer processed last contains the
   reasoning-close marker "</think>", also together with the open marker,
   the consumer is not in reasoning mode. *)
C34_CloseLeavesReasoning ==
    (unit.fn = "on_token" /\ pc = "stream" /\ chunk = << >> /\ Consumed # << >>
        /\ Contains(Consumed[Len(Consumed)], ThinkClose)) => ~in_think_block

----------------------------------------------------------------------------
(* SpecSplit: generate_ollama_streaming fed one sequence of frames that the
   network delivers in chunks cut anywhere: after a line, or inside one *)

FramesOnly == {Frame(Ls, FALSE), Frame(DashL, FALSE), Frame(Dot, TRUE)}

RECURSIVE Delivered(_, _, _, _, _)
\* the chunks for the frames from the k-th on, cur being the lines of the
\* chunk under way: a frame in `inside` straddles two chunks, and each chunk
\* then holds a part of its bytes, which chunk.lines() (line 298) gives as a
\* line that is no frame; a chunk also ends after each frame in `after`
Delivered(frames, k, after, inside, cur) ==
    IF k > Len(frames) THEN (IF cur = << >> THEN << >> ELSE <<Chunk(cur)>>)
    ELSE LET first == IF k \in inside THEN <<Chunk(Append(cur, BadLine))>> ELSE << >>
             held == IF k \in inside THEN <<BadLine>> ELSE Append(cur, frames[k])
         IN  IF k \in after
             THEN first \o <<Chunk(held)>> \o Delivered(frames, k + 1, after, inside, << >>)
             ELSE first \o Delivered(frames, k + 1, after, inside, held)

InitSplit ==
    /\ \E frames \in SeqsUpTo(FramesOnly, MaxLines) :
       \E after \in SUBSET (1..Len(frames)), inside \in SUBSET (1..Len(frames)) :
        /\ unit = [fn |-> "generate_ollama_streaming", arg |-> frames, ret |-> FALSE,
                   done |-> TRUE]
        /\ wire = [connect |-> TRUE, items |-> Delivered(frames, 1, after, inside, << >>)]
    /\ pc = "stream"
    /\ args = << >>
    /\ is_tty \in BOOLEAN
    /\ stdin = [tty |-> TRUE, data |-> << >>, reads |-> 0]
    /\ router_enabled = TRUE
    /\ quick_mode = FALSE
    /\ auto_confirm = FALSE
    /\ intent = << >>
    /\ needs = DefaultNeeds
    /\ FreshRoute
    /\ prompt = GenericPrompt
    /\ requests = <<Request("generate", "none")>>
    /\ chunk = << >>
    /\ full_response = << >>
    /\ result = << >>
    /\ in_think_block = FALSE
    /\ first_visible_token = TRUE
    /\ got_first_token = FALSE
    /\ spinner = IF is_tty THEN "running" ELSE "idle"
    /\ generation_result = "pending"
    /\ FreshOut

NextSplit ==
    RecvItem \/ ProcessLine \/ StreamEnd \/ StopSpinner \/ SpinnerPoll \/ SpinnerDraw
    \/ GenDone

SpecSplit == InitSplit /\ [][NextSplit]_vars

(* C35: the text the generator returns is decided by the frames the backend
   sent, however the bytes were cut into chunks: for frames none of which
   follows a done frame, it is the concatenation of all their response
   fields, each once and in place, also when a frame straddles two chunks. *)
C35_ChunkingDoesNotMatter ==
    (GeneratorReturned /\ DoneOnlyLast(unit.arg)) =>
        /\ generation_result = "ok"
        /\ full_response = Responses(unit.arg)

----------------------------------------------------------------------------
(* C36: once the first visible token has been printed, the spinner task
   draws nothing more: no pass through its loop body, which clears the line
   and prints a frame, ends after a token is on the terminal. *)
C36_NoFrameAfterToken ==
    [][(spinner = "drawing" /\ spinner' = "running") => Printed("token") = {}]_vars

(* C37: the commit override touches git_diff, git_status and git_log only:
   git_diff_staged, git_branch, file_tree and read_files are as the router
   gave them; and for an intent that is not about creating a commit the
   router's ContextNeeds is used unchanged. *)
C37_OverrideFrame ==
    Routed =>
        /\ needs.git_diff_staged = router.result.git_diff_staged
        /\ needs.git_branch = router.result.git_branch
        /\ needs.file_tree = router.result.file_tree
        /\ needs.read_files = router.result.read_files
        /\ ~AboutCommit(intent) => needs = router.result

\* the override acted on a router result that asked for the staged diff and
\* the branch: both are still asked for
C37_Witness ==
    /\ Routed
    /\ AboutCommit(intent)
    /\ router.result = Needs(FALSE, TRUE, FALSE, FALSE, TRUE, FALSE, << >>)
    /\ needs = Needs(TRUE, TRUE, TRUE, TRUE, TRUE, FALSE, << >>)

(* C38: the router request names the router model and asks for JSON, the
   generation request names the generation model and asks for no format. *)
C38_ModelsAddressed ==
    /\ \A i \in Sent("router") :
            requests[i].model = "router_model" /\ requests[i].format = "json"
    /\ \A i \in Sent("generate") :
            requests[i].model = "ollama_model" /\ requests[i].format = "none"

----------------------------------------------------------------------------
(* SpecConfig: Config::load called some times in a row on a configuration
   directory; unit.arg is the directory (what config.yaml and config.json
   hold now, and what they held at the start), unit.ret the Config that the
   last call returned, unit.done whether a call has been made *)
MaxLoads == 3

\* a file is not there, cannot be read or parsed, or holds settings
Absent == "absent"
Corrupt == "corrupt"
Settings == {"settings A", "settings B"}
FileStates == {Absent, Corrupt} \cup Settings

\* what fs::write and fs::remove_file can do: Config::save writes the file,
\* fails before anything is written, or fails after the file was truncated
SaveOutcomes == {"written", "failed", "truncated"}

\* Config::save, lines 201-209
save(dir, config, outcome) ==
    IF outcome = "written" THEN [dir EXCEPT !.yaml = config]
    ELSE IF outcome = "truncated" THEN [dir EXCEPT !.yaml = Corrupt]
    ELSE dir

\* Config::load, lines 173-199: the Config returned and the directory left
load(dir, outcome, removed) ==
    IF dir.yaml \in Settings THEN [config |-> dir.yaml, dir |-> dir]
    ELSE IF dir.json \in Settings THEN
        LET saved == save(dir, dir.json, outcome)
        IN  [config |-> dir.json,
             dir |-> IF removed THEN [saved EXCEPT !.json = Absent] ELSE saved]
    ELSE [config |-> "default", dir |-> dir]

InitConfig ==
    /\ Idle
    /\ \E y \in FileStates, j \in FileStates :
        unit = [fn |-> "Config::load",
                arg |-> [yaml |-> y, json |-> j, yaml0 |-> y, json0 |-> j, loads |-> 0],
                ret |-> "none", done |-> FALSE]

CallLoad ==
    /\ unit.fn = "Config::load"
    /\ unit.arg.loads < MaxLoads
    /\ \E outcome \in SaveOutcomes, removed \in BOOLEAN :
        LET r == load(unit.arg, outcome, removed)
        IN  unit' = [unit EXCEPT !.arg = [r.dir EXCEPT !.loads = @ + 1],
                                 !.ret = r.config, !.done = TRUE]
    /\ UNCHANGED pipeVars

NextConfig == CallLoad

SpecConfig == InitConfig /\ [][NextConfig]_vars

\* the settings the user had at the start: those of config.yaml when it
\* parsed, else those of config.json
StoredAtStart ==
    IF unit.arg.yaml0 \in Settings THEN unit.arg.yaml0
    ELSE IF unit.arg.json0 \in Settings THEN unit.arg.json0
    ELSE "default"

(* C39: Config::load always returns a Config: the YAML one when that file
   parses, else the legacy JSON one, else the defaults; and after any
   sequence of loads a file still holds the settings the user had, because
   the legacy file goes only once the YAML file has been written. *)
C39_SettingsNeverLost ==
    (unit.fn = "Config::load" /\ unit.done) =>
        /\ unit.ret \in Settings \cup {"default"}
        /\ StoredAtStart # "default" =>
                (unit.arg.yaml = StoredAtStart \/ unit.arg.json = StoredAtStart)

====
